---- MODULE Spec2Model ----
(***************************************************************************)
(* ChildProject.annotations.AnnotationManager: the annotation index, the   *)
(* import pipeline (import_annotations / _import_annotation), and          *)
(* merge_sets / merge_annotations, rename_set, remove_set.                 *)
(*                                                                         *)
(* Tables (pandas DataFrames) are sequences of records. The name of a set   *)
(* is the sequence of its path components (<<"A", "x">> is the subset A/x); *)
(* a raw_filename is a sequence of pieces, so that joining two of them with *)
(* a comma is a concatenation. A missing value (NaN) is "" in a text        *)
(* column and <<>> in annotation_filename and raw_filename.                 *)
(***************************************************************************)
EXTENDS Integers, Sequences, FiniteSets, TLC

VARIABLES
    stored,         \* metadata/annotations.csv: the index on storage
    annotations,    \* self.annotations: the index in memory
    files,          \* converted files: <<set, annotation_filename>> -> segment table
    dirs,           \* the directories that exist under annotations/
    call,           \* the call of import_annotations in progress, or the last one
    units,          \* import_annotations: one entry per descriptor of the batch
    index_writes,   \* how many times the current call wrote the index
    external,       \* how many edits someone else made to the stored index
    args,           \* the arguments of a function applied on its own
    result          \* what that function returned

vars == <<stored, annotations, files, dirs, call, units, index_writes, external, args, result>>

\* the variables of the functions applied on their own
applied == <<args, result>>

---------------------------------------------------------------------------
(* Bounds of the model *)

MaxBatch == 2
MaxExternal == 1

(* mp.cpu_count() of the machine the model runs the pool on *)
Cores == 2

---------------------------------------------------------------------------
(* Helpers on sequences *)

Range(s) == {s[i] : i \in 1..Len(s)}

RECURSIVE SeqsUpTo(_, _)
SeqsUpTo(S, n) ==
    IF n = 0 THEN {<<>>}
    ELSE LET shorter == SeqsUpTo(S, n - 1)
         IN  shorter \cup {Append(s, x) : s \in {t \in shorter : Len(t) = n - 1}, x \in S}

Max(a, b) == IF a >= b THEN a ELSE b
Min(a, b) == IF a <= b THEN a ELSE b

---------------------------------------------------------------------------
(* The project and the index schema *)

\* project.recordings['recording_filename']: the recordings of the project
ProjectRecordings == {[base |-> "r1", ext |-> "wav"]}

\* recordings a descriptor may name; r9.wav is not in the project
RecordingNames == ProjectRecordings \cup {[base |-> "r9", ext |-> "wav"]}

\* AnnotationManager.INDEX_COLUMNS
INDEX_COLUMNS ==
    {"set", "recording_filename", "time_seek", "range_onset", "range_offset",
     "raw_filename", "format", "filter", "annotation_filename", "imported_at",
     "package_version", "error"}

\* the generated columns and their missing values
NoFilename == <<>>
NoText == ""

\* os.path.splitext(recording_filename)[0]
splitext(recording) == recording.base

\* "{}_{}_{}.csv".format(source_recording, time_seek, range_onset)
AnnotationFilename(annotation) ==
    <<splitext(annotation.recording_filename), annotation.time_seek, annotation.range_onset>>

\* os.path.join('annotations', set, 'converted', annotation_filename)
OutputPath(annotation) == <<annotation.set, AnnotationFilename(annotation)>>

---------------------------------------------------------------------------
(* Directories under annotations/ *)

RawDir(s) == s \o <<"raw">>
ConvertedDir(s) == s \o <<"converted">>

\* the directories of a project whose sets A and B hold raw annotations
InitialDirs == {<<"A">>, RawDir(<<"A">>), <<"B">>, RawDir(<<"B">>)}

\* os.makedirs(path, exist_ok = True): the directory and its parents
makedirs(ds, path) == ds \cup {SubSeq(path, 1, n) : n \in 1..Len(path)}

IsPrefix(p, q) == Len(p) <= Len(q) /\ SubSeq(q, 1, Len(p)) = p

---------------------------------------------------------------------------
(* Segment tables *)

\* Series.clip(lower, upper) of pandas: the bounds are put in order, then applied
Clip(x, lower, upper) ==
    LET lo == Min(lower, upper)
        hi == Max(lower, upper)
    IN  IF x < lo THEN lo ELSE IF x > hi THEN hi ELSE x

\* clip_segments, the two in-place clips: the frame that was passed in, afterwards
ClippedInPlace(segments, start, stop) ==
    [i \in 1..Len(segments) |->
        [segments[i] EXCEPT !.segment_onset = Clip(@, start, stop),
                            !.segment_offset = Clip(@, start, stop)]]

\* a filter that keeps the segments of no length
PositiveLength_or_none(s) == s.segment_offset - s.segment_onset >= 0

PositiveLength(s) == s.segment_offset - s.segment_onset > 0

\* clip_segments: the frame it returns
clip_segments(segments, start, stop) ==
    SelectSeq(ClippedInPlace(segments, start, stop), PositiveLength)

\* the order of speaker_type values (strings compare alphabetically)
SpeakerRank(t) == CASE t = "CHI" -> 1 [] t = "FEM" -> 2 [] t = "MAL" -> 3 [] OTHER -> 4

\* row a goes before row b under sort_values(sort_columns)
SortsBefore(a, b) ==
    \/ a.segment_onset < b.segment_onset
    \/ /\ a.segment_onset = b.segment_onset
       /\ a.segment_offset < b.segment_offset
    \/ /\ a.segment_onset = b.segment_onset
       /\ a.segment_offset = b.segment_offset
       /\ "speaker_type" \in DOMAIN a
       /\ SpeakerRank(a.speaker_type) < SpeakerRank(b.speaker_type)

RECURSIVE InsertSorted(_, _)
InsertSorted(sorted, row) ==
    IF sorted = <<>> THEN <<row>>
    ELSE IF SortsBefore(row, Head(sorted)) THEN <<row>> \o sorted
    ELSE <<Head(sorted)>> \o InsertSorted(Tail(sorted), row)

\* df.sort_values(sort_columns)
RECURSIVE sort_values(_)
sort_values(df) ==
    IF df = <<>> THEN <<>>
    ELSE InsertSorted(sort_values(SubSeq(df, 1, Len(df) - 1)), df[Len(df)])

---------------------------------------------------------------------------
(* Converters: the raw files of the project and what converting them gives *)

\* converters.is_thread_safe: format -> whether its converter may run in a pool
is_thread_safe == [f \in {"its", "cha"} |-> f = "its"]

Formats == {"its", "cha", "bogus"}

RawFilenames == {<<"ok">>, <<"unreadable">>, <<"nocols">>}

\* What the converter of a known format, or the caller's import_function, does on
\* annotations/<set>/raw/<raw_filename>: raises, or returns a table.
ConvertFile(raw_filename) ==
    CASE raw_filename = <<"ok">> ->
            [raised |-> FALSE,
             df |-> << [segment_onset |-> 4, segment_offset |-> 9, speaker_type |-> "FEM"],
                       [segment_onset |-> 1, segment_offset |-> 3, speaker_type |-> "MAL"],
                       [segment_onset |-> 1, segment_offset |-> 3, speaker_type |-> "CHI"],
                       [segment_onset |-> 0, segment_offset |-> 2, speaker_type |-> "CHI"] >>]
      [] raw_filename = <<"nocols">> ->
            [raised |-> FALSE, df |-> << [speaker_type |-> "CHI"] >>]
      [] OTHER ->
            [raised |-> TRUE, df |-> <<>>]

\* the raw file of a descriptor, annotations/<set>/raw/<raw_filename>, as the
\* converter finds it
ReadRaw(annotation) ==
    IF RawDir(annotation.set) \in dirs THEN ConvertFile(annotation.raw_filename)
    ELSE [raised |-> TRUE, df |-> <<>>]

\* _import_annotation, the try block: the converter the descriptor selects
Convert(custom, annotation) ==
    IF custom THEN ReadRaw(annotation)
    ELSE IF annotation.format \in DOMAIN is_thread_safe THEN ReadRaw(annotation)
    ELSE [raised |-> TRUE, df |-> <<>>]

HasBoundaryColumns(df) ==
    \A i \in 1..Len(df) : {"segment_onset", "segment_offset"} \subseteq DOMAIN df[i]

\* df['raw_filename'] = annotation['raw_filename']
WithRawFilename(df, raw_filename) ==
    [i \in 1..Len(df) |->
        [c \in DOMAIN df[i] \cup {"raw_filename"} |->
            IF c = "raw_filename" THEN raw_filename ELSE df[i][c]]]

\* the segments _import_annotation writes for a converted table
ConvertedSegments(df, annotation) ==
    sort_values(clip_segments(WithRawFilename(df, annotation.raw_filename),
                              annotation.range_onset, annotation.range_offset))

\* the except clause: the descriptor with the traceback in 'error'
WithError(annotation) ==
    [c \in DOMAIN annotation \cup {"error"} |->
        IF c = "error" THEN "traceback" ELSE annotation[c]]

\* the descriptor stamped with the generated columns
Stamped(annotation) ==
    [c \in DOMAIN annotation \cup {"annotation_filename", "imported_at", "package_version"} |->
        CASE c = "annotation_filename" -> AnnotationFilename(annotation)
          [] c = "imported_at" -> "now"
          [] c = "package_version" -> "version"
          [] OTHER -> annotation[c]]

\* _import_annotation without its try/except: a converter's exception leaves the unit
import_annotation_uncaught(custom, annotation) ==
    LET conv == Convert(custom, annotation)
    IN  IF conv.raised \/ ~HasBoundaryColumns(conv.df)
        THEN [raises |-> TRUE, annotation |-> annotation, writes |-> <<>>]
        ELSE [raises |-> FALSE,
              annotation |-> Stamped(annotation),
              writes |-> << [path |-> OutputPath(annotation),
                             segments |-> ConvertedSegments(conv.df, annotation)] >>]

\* _import_annotation(import_function, annotation): whether it returns or raises,
\* the dictionary it returns, and the converted file it writes (at most one)
import_annotation(custom, annotation) ==
    LET conv == Convert(custom, annotation)
    IN  IF conv.raised
        THEN [raises |-> FALSE, annotation |-> WithError(annotation), writes |-> <<>>]
        ELSE IF ~HasBoundaryColumns(conv.df)
        THEN [raises |-> TRUE, annotation |-> annotation, writes |-> <<>>]
        ELSE [raises |-> FALSE,
              annotation |-> Stamped(annotation),
              writes |-> << [path |-> OutputPath(annotation),
                             segments |-> ConvertedSegments(conv.df, annotation)] >>]

---------------------------------------------------------------------------
(* Data frames of annotation records *)

\* the missing value (NaN) of a column
NaN(c) == IF c \in {"annotation_filename", "raw_filename"} THEN NoFilename ELSE NoText

Columns(records) == UNION {DOMAIN records[i] : i \in 1..Len(records)}

\* a frame with exactly the columns cols: the other columns are dropped, the
\* missing values are NaN
Reindexed(records, cols) ==
    [i \in 1..Len(records) |->
        [c \in cols |-> IF c \in DOMAIN records[i] THEN records[i][c] ELSE NaN(c)]]

\* pd.DataFrame(imported): one row per dictionary, the columns their keys
DataFrame(records) == Reindexed(records, Columns(records))

\* imported.drop(columns not in INDEX_COLUMNS)
DropNonIndexColumns(frame) == Reindexed(frame, Columns(frame) \cap INDEX_COLUMNS)

\* pd.concat([self.annotations, imported]): the index has every index column
ConcatIndex(index, frame) == index \o Reindexed(frame, INDEX_COLUMNS)

---------------------------------------------------------------------------
(* import_annotations *)

\* the descriptors a caller may pass: the columns of the input frame
Descriptors ==
    [set : {<<"A">>}, recording_filename : RecordingNames, time_seek : {0},
     range_onset : {0, 2}, range_offset : {6}, raw_filename : RawFilenames,
     format : Formats, comment : {"todo"}]

\* the batches a caller may pass
Batches == SeqsUpTo(Descriptors, MaxBatch) \ {<<>>}

ThreadsArguments == {-1, 1, 2}

\* a row someone else appends to metadata/annotations.csv
ExternalRow ==
    [c \in INDEX_COLUMNS |->
        CASE c = "set" -> <<"Z">>
          [] c = "recording_filename" -> [base |-> "r1", ext |-> "wav"]
          [] c \in {"time_seek", "range_onset"} -> 0
          [] c = "range_offset" -> 6
          [] c = "annotation_filename" -> <<"r1", 0, 0>>
          [] c = "raw_filename" -> <<"z">>
          [] OTHER -> "z"]

NoArgs == [fn |-> "none"]
NoResult == [done |-> FALSE]

NoCall ==
    [op |-> "none", st |-> "idle", input |-> <<>>, threads |-> 0, custom |-> FALSE,
     pool |-> 0, imported |-> <<>>]

\* the recordings test applied to the first descriptor only
missing_recordings_first(input) ==
    {i \in {1} : input[i].recording_filename \notin ProjectRecordings}

\* the descriptors whose recording_filename is not in the project's recordings
missing_recordings(input) ==
    {i \in 1..Len(input) : input[i].recording_filename \notin ProjectRecordings}

\* threads left as the caller gave it, whatever the formats
EffectiveThreads_unchecked(input, threads) == threads

\* lines 268-271: threads after the thread-safety test of the formats of the batch
EffectiveThreads(input, threads) ==
    LET builtin == {i \in 1..Len(input) : input[i].format \in DOMAIN is_thread_safe}
    IN  IF \E i \in builtin : ~is_thread_safe[input[i].format] THEN 1 ELSE threads

\* how many units may be in progress at once: 1 under input.apply, else the pool's
\* processes
PoolSize(threads) == IF threads > 0 THEN threads ELSE Cores

Running == {i \in 1..Len(units) : units[i].st = "running"}

\* import_annotations is called: the recordings are looked up, then the units are set up
ImportAnnotations(input, threads, custom) ==
    /\ call.st = "idle"
    /\ IF missing_recordings(input) # {}
       THEN /\ call' = [NoCall EXCEPT !.op = "import", !.st = "ValueError", !.input = input,
                                      !.threads = threads, !.custom = custom]
            /\ UNCHANGED <<units, index_writes>>
       ELSE /\ call' = [NoCall EXCEPT !.op = "import", !.st = "running", !.input = input,
                                      !.threads = threads, !.custom = custom,
                                      !.pool = PoolSize(EffectiveThreads(input, threads))]
            /\ units' = [i \in 1..Len(input) |-> [st |-> "pending", annotation |-> input[i]]]
            /\ index_writes' = 0
    /\ UNCHANGED <<stored, annotations, files, dirs, external, applied>>

\* a worker (or the loop of input.apply) takes the next descriptor and calls
\* _import_annotation on it
StartUnit(i) ==
    /\ call.st = "running"
    /\ units[i].st = "pending"
    /\ \A j \in 1..(i - 1) : units[j].st # "pending"
    /\ Cardinality(Running) < call.pool
    /\ call.pool = 1 => \A j \in 1..Len(units) : units[j].st # "raised"
    /\ units' = [units EXCEPT ![i].st = "running"]
    /\ UNCHANGED <<stored, annotations, files, dirs, call, index_writes, external, applied>>

\* df.to_csv(path): the converted files after one file is written
WriteFile(fs, w) ==
    [p \in DOMAIN fs \cup {w.path} |-> IF p = w.path THEN w.segments ELSE fs[p]]

RECURSIVE WriteFiles(_, _)
WriteFiles(fs, writes) ==
    IF writes = <<>> THEN fs
    ELSE WriteFiles(WriteFile(fs, Head(writes)), Tail(writes))

\* os.makedirs(dirname(path)) for every file written
RECURSIVE MakeDirs(_, _)
MakeDirs(ds, writes) ==
    IF writes = <<>> THEN ds
    ELSE MakeDirs(makedirs(ds, ConvertedDir(Head(writes).path[1])), Tail(writes))

\* _import_annotation ends for unit i: it wrote its converted file and returns, or
\* raises
FinishUnit(i) ==
    /\ call.st = "running"
    /\ units[i].st = "running"
    /\ LET r == import_annotation(call.custom, units[i].annotation)
       IN  /\ units' = [units EXCEPT ![i] = [st |-> IF r.raises THEN "raised" ELSE "returned",
                                             annotation |-> r.annotation]]
           /\ files' = WriteFiles(files, r.writes)
           /\ dirs' = MakeDirs(dirs, r.writes)
    /\ UNCHANGED <<stored, annotations, call, index_writes, external, applied>>

\* an exception of a unit leaves import_annotations: out of input.apply at once, out
\* of pool.map once the pool reports it
Propagate ==
    /\ call.st = "running"
    /\ \E i \in 1..Len(units) : units[i].st = "raised"
    /\ call' = [call EXCEPT !.st = "raised"]
    /\ UNCHANGED <<stored, annotations, files, dirs, units, index_writes, external, applied>>

\* lines 282-289: every unit returned; the index is read again, the records are
\* appended, the index is written
WriteIndex ==
    /\ call.st = "running"
    /\ \A i \in 1..Len(units) : units[i].st = "returned"
    /\ LET imported == DropNonIndexColumns(DataFrame([i \in 1..Len(units) |-> units[i].annotation]))
       IN  /\ annotations' = ConcatIndex(stored, imported)
           /\ stored' = ConcatIndex(stored, imported)
           /\ call' = [call EXCEPT !.st = "done", !.imported = imported]
    /\ index_writes' = index_writes + 1
    /\ UNCHANGED <<files, dirs, units, external, applied>>

\* someone else appends a row to the stored index
ExternalEdit ==
    /\ call.st \in {"idle", "running"}
    /\ external < MaxExternal
    /\ stored' = Append(stored, ExternalRow)
    /\ external' = external + 1
    /\ UNCHANGED <<annotations, files, dirs, call, units, index_writes, applied>>

Init ==
    /\ stored = <<>>
    /\ annotations = <<>>
    /\ files = <<>>
    /\ dirs = InitialDirs
    /\ call = NoCall
    /\ units = <<>>
    /\ index_writes = 0
    /\ external = 0
    /\ args = NoArgs
    /\ result = NoResult

Next ==
    \/ /\ call.st = "idle"
       /\ \E input \in Batches, threads \in ThreadsArguments, custom \in BOOLEAN :
            ImportAnnotations(input, threads, custom)
    \/ \E i \in 1..Len(units) : StartUnit(i)
    \/ \E i \in 1..Len(units) : FinishUnit(i)
    \/ Propagate
    \/ WriteIndex
    \/ ExternalEdit

Spec == Init /\ [][Next]_vars

---------------------------------------------------------------------------
(* intersection *)

\* a frame with column c set to v in every row (added when it is missing)
Assign(row, c, v) == [k \in DOMAIN row \cup {c} |-> IF k = c THEN v ELSE row[k]]

\* a row without the columns cols
DropColumns(row, cols) == [k \in DOMAIN row \ cols |-> row[k]]

RECURSIVE Flatten(_)
Flatten(ss) == IF ss = <<>> THEN <<>> ELSE Head(ss) \o Flatten(Tail(ss))

\* Series.unique(): the values in the order of their first appearance
Unique(values) ==
    LET firsts == {i \in 1..Len(values) : \A j \in 1..(i - 1) : values[j] # values[i]}
    IN  [k \in 1..Cardinality(firsts) |->
            values[CHOOSE i \in firsts : Cardinality({j \in firsts : j < i}) = k - 1]]

abs_range_onset(r) == r.range_onset + r.time_seek
abs_range_offset(r) == r.range_offset + r.time_seek

RangeBefore(a, b) ==
    \/ abs_range_onset(a) < abs_range_onset(b)
    \/ abs_range_onset(a) = abs_range_onset(b) /\ abs_range_offset(a) < abs_range_offset(b)

RECURSIVE InsertByRange(_, _)
InsertByRange(sorted, row) ==
    IF sorted = <<>> THEN <<row>>
    ELSE IF RangeBefore(row, Head(sorted)) THEN <<row>> \o sorted
    ELSE <<Head(sorted)>> \o InsertByRange(Tail(sorted), row)

\* _annotations.sort_values(['abs_range_onset', 'abs_range_offset'])
RECURSIVE SortByRange(_)
SortByRange(rows) ==
    IF rows = <<>> THEN <<>>
    ELSE InsertByRange(SortByRange(SubSeq(rows, 1, Len(rows) - 1)), rows[Len(rows)])

StartBefore(a, b) == a.start < b.start \/ (a.start = b.start /\ a.stop < b.stop)

RECURSIVE InsertByStart(_, _)
InsertByStart(sorted, x) ==
    IF sorted = <<>> THEN <<x>>
    ELSE IF StartBefore(x, Head(sorted)) THEN <<x>> \o sorted
    ELSE <<Head(sorted)>> \o InsertByStart(Tail(sorted), x)

RECURSIVE SortByStart(_)
SortByStart(xs) ==
    IF xs = <<>> THEN <<>>
    ELSE InsertByStart(SortByStart(SubSeq(xs, 1, Len(xs) - 1)), xs[Len(xs)])

\* utils.intersect_ranges(xs, ys): the overlaps of positive length between an
\* interval of xs and an interval of ys, sorted
intersect_ranges(xs, ys) ==
    LET overlap(x, y) == [start |-> Max(x.start, y.start), stop |-> Min(x.stop, y.stop)]
        pairs == Flatten([i \in 1..Len(xs) |-> [j \in 1..Len(ys) |-> overlap(xs[i], ys[j])]])
    IN  SortByStart(SelectSeq(pairs, LAMBDA o : o.stop - o.start > 0))

\* a fold that stops after the first two lists
ReduceIntersect_first_two(lists) ==
    IF Len(lists) = 1 THEN lists[1] ELSE intersect_ranges(lists[1], lists[2])

\* reduce(intersect_ranges, segments)
RECURSIVE ReduceIntersect(_)
ReduceIntersect(lists) ==
    IF Len(lists) = 1 THEN lists[1]
    ELSE intersect_ranges(ReduceIntersect(SubSeq(lists, 1, Len(lists) - 1)), lists[Len(lists)])

\* the records clipped to one overlap, those of no length kept
ClipToOverlap_unfiltered(rows, segment) ==
    [i \in 1..Len(rows) |->
        [rows[i] EXCEPT !.range_onset = Clip(abs_range_onset(rows[i]), segment.start, segment.stop)
                                            - rows[i].time_seek,
                        !.range_offset = Clip(abs_range_offset(rows[i]), segment.start, segment.stop)
                                            - rows[i].time_seek]]

\* lines 650-653: the records of a recording clipped to one overlap
ClipToOverlap(rows, segment) ==
    LET clipped(r) ==
            [r EXCEPT !.range_onset = Clip(abs_range_onset(r), segment.start, segment.stop) - r.time_seek,
                      !.range_offset = Clip(abs_range_offset(r), segment.start, segment.stop) - r.time_seek]
    IN  SelectSeq([i \in 1..Len(rows) |-> clipped(rows[i])],
                  LAMBDA r : r.range_offset - r.range_onset > 0)

\* the records of the recordings that every requested set has a record of, whatever
\* their ranges
intersection_of_recordings(annots, sets) ==
    SelectSeq(annots, LAMBDA r :
        /\ r.set \in Range(sets)
        /\ \A st \in Range(sets) : \E i \in 1..Len(annots) :
                annots[i].set = st /\ annots[i].recording_filename = r.recording_filename)

\* AnnotationManager.intersection(annotations, sets), sets given
intersection(annots, sets) ==
    LET recordings == Unique([i \in 1..Len(annots) |-> annots[i].recording_filename])
        requested == SelectSeq(annots, LAMBDA r : r.set \in Range(sets))
        ofRecording(rec) ==
            LET rows == SortByRange(SelectSeq(requested, LAMBDA r : r.recording_filename = rec))
                ranges(st) ==
                    LET ann == SelectSeq(rows, LAMBDA r : r.set = st)
                    IN  [i \in 1..Len(ann) |->
                            [start |-> abs_range_onset(ann[i]), stop |-> abs_range_offset(ann[i])]]
                segments == ReduceIntersect([k \in 1..Len(sets) |-> ranges(sets[k])])
            IN  Flatten([k \in 1..Len(segments) |-> ClipToOverlap(rows, segments[k])])
    IN  Flatten([k \in 1..Len(recordings) |-> ofRecording(recordings[k])])

---------------------------------------------------------------------------
(* get_segments *)

\* the order in which groupby(['set', 'annotation_filename']) gives the groups
SetRank(st) ==
    CASE st = <<"A">> -> 1 [] st = <<"B">> -> 2 [] st = <<"C">> -> 3 [] st = <<"M">> -> 4
      [] OTHER -> 5

GroupBefore(a, b) ==
    \/ SetRank(a[1]) < SetRank(b[1])
    \/ /\ a[1] = b[1]
       /\ \/ a[2][2] < b[2][2]
          \/ a[2][2] = b[2][2] /\ a[2][3] < b[2][3]

RECURSIVE InsertGroup(_, _)
InsertGroup(sorted, g) ==
    IF sorted = <<>> THEN <<g>>
    ELSE IF GroupBefore(g, Head(sorted)) THEN <<g>> \o sorted
    ELSE <<Head(sorted)>> \o InsertGroup(Tail(sorted), g)

RECURSIVE SortGroups(_)
SortGroups(gs) ==
    IF gs = <<>> THEN <<>>
    ELSE InsertGroup(SortGroups(SubSeq(gs, 1, Len(gs) - 1)), gs[Len(gs)])

\* lines 576-577: every column of the record is set on its segments
Broadcast(segs, annotation) ==
    [i \in 1..Len(segs) |->
        [c \in DOMAIN segs[i] \cup DOMAIN annotation |->
            IF c \in DOMAIN annotation THEN annotation[c] ELSE segs[i][c]]]

\* lines 571-579: the records of one file in turn; each clip_segments changes df
RECURSIVE GroupSegments(_, _)
GroupSegments(df, group) ==
    IF group = <<>> THEN <<>>
    ELSE LET annotation == Head(group)
             segs == clip_segments(df, annotation.range_onset, annotation.range_offset)
             after == ClippedInPlace(df, annotation.range_onset, annotation.range_offset)
         IN  Broadcast(segs, annotation) \o GroupSegments(after, Tail(group))

\* get_segments(annotations), reading the converted files fs
get_segments(annots, fs) ==
    LET indexed == SelectSeq(annots, LAMBDA r : r.annotation_filename # NoFilename)
        rows == [i \in 1..Len(indexed) |-> DropColumns(indexed[i], {"raw_filename"})]
        keys == SortGroups(Unique([i \in 1..Len(rows) |-> <<rows[i].set, rows[i].annotation_filename>>]))
        group(k) == SelectSeq(rows, LAMBDA r : <<r.set, r.annotation_filename>> = k)
    IN  Flatten([g \in 1..Len(keys) |-> GroupSegments(fs[keys[g]], group(keys[g]))])

---------------------------------------------------------------------------
(* merge_annotations *)

\* AnnotationManager.SEGMENTS_COLUMNS
SEGMENTS_COLUMNS ==
    {"raw_filename", "segment_onset", "segment_offset", "speaker_id", "speaker_type",
     "ling_type", "vcm_type", "lex_type", "mwu_type", "addressee", "transcription",
     "phonemes", "syllables", "words", "lena_block_type", "lena_block_number",
     "lena_conv_status", "lena_response_count", "lena_conv_floor_type",
     "lena_conv_turn_type", "utterances_count", "utterances_length",
     "non_speech_length", "average_db", "peak_db", "child_cry_vfx_len", "utterances",
     "cries", "vfxs"}

\* the columns of SEGMENTS_COLUMNS declared required = True
REQUIRED_SEGMENTS_COLUMNS == {"raw_filename", "segment_onset", "segment_offset"}

\* the sentinel of a value that is not applicable
NA == "NA"

\* lines 436-440: onsets and offsets on the timeline of the recording
Absolute(segs) ==
    [i \in 1..Len(segs) |->
        [segs[i] EXCEPT !.segment_onset = @ + segs[i].time_seek,
                        !.segment_offset = @ + segs[i].time_seek]]

\* a join on the interval and the onset alone
MergeKey_onset_only(seg) == <<seg.interval, seg.segment_onset, 0>>

\* the key of the join
MergeKey(seg) == <<seg.interval, seg.segment_onset, seg.segment_offset>>

KeyBefore(a, b) ==
    \/ a[1] < b[1]
    \/ a[1] = b[1] /\ a[2] < b[2]
    \/ a[1] = b[1] /\ a[2] = b[2] /\ a[3] < b[3]

RECURSIVE InsertKey(_, _)
InsertKey(sorted, k) ==
    IF sorted = <<>> THEN <<k>>
    ELSE IF KeyBefore(k, Head(sorted)) THEN <<k>> \o sorted
    ELSE <<Head(sorted)>> \o InsertKey(Tail(sorted), k)

RECURSIVE SortKeys(_)
SortKeys(ks) ==
    IF ks = <<>> THEN <<>>
    ELSE InsertKey(SortKeys(SubSeq(ks, 1, Len(ks) - 1)), ks[Len(ks)])

\* reindex(..., fill_value = 'NA'): the value of a column the frame may lack
ValueOrNA(seg, c) == IF c \in DOMAIN seg THEN seg[c] ELSE NA

\* "a,b" for the raw filenames a and b
CommaJoined(x, y) == x \o <<",">> \o y

\* a left and a right segment with the same key: one output row. 'paired' is the
\* raw_filename of line 460, 'raw_filename' the one of line 472.
MatchedRow(l, r, left_columns, right_columns) ==
    [c \in {"interval", "segment_onset", "segment_offset", "raw_filename", "paired"}
           \cup Range(left_columns) \cup Range(right_columns) |->
        CASE c = "interval" -> l.interval
          [] c = "segment_onset" -> l.segment_onset - l.time_seek
          [] c = "segment_offset" -> l.segment_offset - l.time_seek
          [] c = "raw_filename" -> CommaJoined(l.raw_filename, r.raw_filename)
          [] c = "paired" -> CommaJoined(l.raw_filename, r.raw_filename)
          [] c \in Range(left_columns) -> ValueOrNA(l, c)
          [] OTHER -> ValueOrNA(r, c)]

\* a left segment no right segment matches: the right columns are NaN, then 'NA'
LeftOnlyRow(l, left_columns, right_columns) ==
    [c \in {"interval", "segment_onset", "segment_offset", "raw_filename", "paired"}
           \cup Range(left_columns) \cup Range(right_columns) |->
        CASE c = "interval" -> l.interval
          [] c = "segment_onset" -> l.segment_onset - l.time_seek
          [] c = "segment_offset" -> l.segment_offset - l.time_seek
          [] c = "raw_filename" -> CommaJoined(l.raw_filename, <<>>)
          [] c = "paired" -> NoFilename
          [] c \in Range(left_columns) -> ValueOrNA(l, c)
          [] OTHER -> NA]

\* a right segment no left segment matches: the left columns and time_seek are
\* NaN, so onset - time_seek is NaN and fillna(0) makes it 0
RightOnlyRow(r, left_columns, right_columns) ==
    [c \in {"interval", "segment_onset", "segment_offset", "raw_filename", "paired"}
           \cup Range(left_columns) \cup Range(right_columns) |->
        CASE c = "interval" -> r.interval
          [] c = "segment_onset" -> 0
          [] c = "segment_offset" -> 0
          [] c = "raw_filename" -> CommaJoined(<<>>, r.raw_filename)
          [] c = "paired" -> NoFilename
          [] c \in Range(right_columns) -> ValueOrNA(r, c)
          [] OTHER -> NA]

\* lines 450-475: left_segments[lc].merge(right_segments[rc], how = 'outer'), then
\* the onsets, offsets and raw_filename of the output
output_segments(left_segments, right_segments, left_columns, right_columns) ==
    LET keys == SortKeys(Unique([i \in 1..Len(left_segments) |-> MergeKey(left_segments[i])]
                                \o [i \in 1..Len(right_segments) |-> MergeKey(right_segments[i])]))
        rowsOf(k) ==
            LET ls == SelectSeq(left_segments, LAMBDA x : MergeKey(x) = k)
                rs == SelectSeq(right_segments, LAMBDA x : MergeKey(x) = k)
            IN  IF ls # <<>> /\ rs # <<>>
                THEN Flatten([i \in 1..Len(ls) |->
                        [j \in 1..Len(rs) |-> MatchedRow(ls[i], rs[j], left_columns, right_columns)]])
                ELSE IF ls # <<>>
                THEN [i \in 1..Len(ls) |-> LeftOnlyRow(ls[i], left_columns, right_columns)]
                ELSE [j \in 1..Len(rs) |-> RightOnlyRow(rs[j], left_columns, right_columns)]
    IN  Flatten([k \in 1..Len(keys) |-> rowsOf(keys[k])])

\* lines 406-419: the output record of a left record, before its raw_filename
OutputRecord(annotation, columns, output_set) ==
    LET named == Assign(Assign(annotation, "format", NoText),
                        "annotation_filename", AnnotationFilename(annotation))
        assigned == [c \in DOMAIN named \cup DOMAIN columns |->
                        IF c \in DOMAIN columns THEN columns[c] ELSE named[c]]
    IN  DropColumns(Assign(assigned, "set", output_set), {"raw_filename"})

\* lines 462-470: annotations.merge(output_segments[['interval', 'raw_filename']]
\* .dropna().drop_duplicates(), how = 'left'): one row per raw_filename found in
\* the interval, one row with NaN when there is none
WithRawFilenames(record, output) ==
    LET found == Unique([i \in 1..Len(output) |-> <<output[i].interval, output[i].paired>>])
        mine == SelectSeq(found, LAMBDA x : x[1] = record.interval /\ x[2] # NoFilename)
        stamped == Assign(record, "generated_at", "now")
    IN  IF mine = <<>> THEN << Assign(stamped, "raw_filename", NoFilename) >>
        ELSE [k \in 1..Len(mine) |-> Assign(stamped, "raw_filename", mine[k][2])]

\* lines 484-485: the segments of an interval, with the segment columns only
SegmentsOfInterval(output, interval) ==
    LET rows == SelectSeq(output, LAMBDA x : x.interval = interval)
    IN  [i \in 1..Len(rows) |-> [c \in DOMAIN rows[i] \cap SEGMENTS_COLUMNS |-> rows[i][c]]]

FileExists(fs, annotation) == <<annotation.set, annotation.annotation_filename>> \in DOMAIN fs

\* lines 421-431: a converted file of the left or of the right records is missing
MissingAnnotations(input, fs) ==
    \/ \E i \in 1..Len(input.left_annotations) : ~FileExists(fs, input.left_annotations[i])
    \/ \E i \in 1..Len(input.right_annotations) : ~FileExists(fs, input.right_annotations[i])

\* lines 477-491: one file per output record, with the segments of its interval
WrittenOutput(records, output) ==
    [raises |-> FALSE,
     annotations |-> records,
     writes |-> [i \in 1..Len(records) |->
                    [path |-> <<records[i].set, records[i].annotation_filename>>,
                     segments |-> SegmentsOfInterval(output, records[i].interval)]]]

\* lines 406-419 and 462-470: the output records of the left records
MergedOutput(left_annotations, columns, output_set, output) ==
    WrittenOutput(Flatten([i \in 1..Len(left_annotations) |->
                    WithRawFilenames(OutputRecord(left_annotations[i], columns, output_set),
                                     output)]),
                  output)

\* merge_annotations(left_columns, right_columns, columns, output_set, input):
\* whether it raises, the records it returns and the converted files it writes
merge_annotations(left_columns, right_columns, columns, output_set, input, fs) ==
    IF MissingAnnotations(input, fs)
    THEN [raises |-> TRUE, annotations |-> <<>>, writes |-> <<>>]
    ELSE MergedOutput(input.left_annotations, columns, output_set,
                      output_segments(Absolute(get_segments(input.left_annotations, fs)),
                                      Absolute(get_segments(input.right_annotations, fs)),
                                      left_columns, right_columns))

---------------------------------------------------------------------------
(* Properties of import_annotations, under specification Spec *)

Field(row, c) == IF c \in DOMAIN row THEN row[c] ELSE NaN(c)

ConversionFails(custom, annotation) == Convert(custom, annotation).raised

ConvertsToSegments(custom, annotation) ==
    /\ ~Convert(custom, annotation).raised
    /\ HasBoundaryColumns(Convert(custom, annotation).df)

\* every descriptor of the batch either fails in its conversion or converts to a
\* segment table
FailingOrWellFormed(custom, input) ==
    \A i \in 1..Len(input) :
        ConversionFails(custom, input[i]) \/ ConvertsToSegments(custom, input[i])

\* the converted file of a descriptor imported alone
ImportedAlone(custom, annotation) == import_annotation(custom, annotation).writes[1].segments

ImportAccepted == call.op = "import" /\ call.st \in {"running", "done", "raised"}

C2_FailureCaughtInUnit ==
    ImportAccepted =>
        /\ call.st # "raised"
        /\ \A i \in 1..Len(units) : units[i].st # "raised"

\* C4: a batch naming a recording that is not in the project fails before any unit
\* is dispatched: no unit exists, no converted file exists, and the stored and the
\* in-memory index are what they were.
C4_UnknownRecordingRejected ==
    (call.op = "import"
        /\ \E i \in 1..Len(call.input) :
              call.input[i].recording_filename \notin ProjectRecordings) =>
        /\ call.st = "ValueError"
        /\ units = <<>>
        /\ DOMAIN files = {}
        /\ dirs = InitialDirs
        /\ annotations = <<>>
        /\ index_writes = 0
        /\ \A i \in 1..Len(stored) : stored[i] = ExternalRow

\* a rejected batch whose first descriptor is valid, on a project whose stored
\* index is not empty
C4_Witness ==
    /\ call.op = "import" /\ call.st = "ValueError"
    /\ Len(call.input) = 2
    /\ call.input[1].recording_filename \in ProjectRecordings
    /\ call.input[2].recording_filename \notin ProjectRecordings
    /\ Len(stored) = 1

UnsafeFormatPresent(input) ==
    \E i \in 1..Len(input) :
        input[i].format \in DOMAIN is_thread_safe /\ ~is_thread_safe[input[i].format]

RequestedPool(threads) == IF threads > 0 THEN threads ELSE Cores

\* C5: with a format flagged not thread-safe in the batch, at most one unit is in
\* progress at any time, whatever threads is; otherwise the pool has threads
\* processes when threads is positive and as many as there are cores when it is
\* not, and no more units than that are in progress.
C5_ConcurrencyPolicy ==
    (call.op = "import" /\ call.st = "running") =>
        /\ UnsafeFormatPresent(call.input) => Cardinality(Running) <= 1
        /\ ~UnsafeFormatPresent(call.input) => call.pool = RequestedPool(call.threads)
        /\ Cardinality(Running) <= RequestedPool(call.threads)

\* threads = 2 was asked for, a format of the batch is not thread-safe, and the
\* second unit runs after the first returned
C5_Witness ==
    /\ call.op = "import" /\ call.st = "running"
    /\ call.threads = 2
    /\ UnsafeFormatPresent(call.input)
    /\ Len(units) = 2
    /\ units[1].st = "returned"
    /\ units[2].st = "running"

\* the default of the threads argument
DefaultThreads == -1

\* C6: with a custom import_function and the default threads argument, the units
\* of the batch run one at a time.
C6_CustomFunctionSerial ==
    (call.op = "import" /\ call.custom /\ call.threads = DefaultThreads) =>
        Cardinality(Running) <= 1

\* C7: in a parallel batch, two distinct descriptors that are converted have
\* different output paths: two workers never write the same converted file.
C7_DistinctOutputPaths ==
    (call.op = "import" /\ call.st = "running" /\ call.pool > 1) =>
        \A i, j \in Running :
            (/\ call.input[i] # call.input[j]
             /\ ConvertsToSegments(call.custom, call.input[i])
             /\ ConvertsToSegments(call.custom, call.input[j])) =>
                OutputPath(call.input[i]) # OutputPath(call.input[j])

\* C8: a call that found every recording it names and ended has written the
\* index exactly once, after every unit returned: the stored index is what was in
\* storage at that moment, unchanged, followed by one row per descriptor with
\* the index columns only.
C8_IndexWrittenOnce ==
    (call.op = "import" /\ call.st \in {"done", "raised"}) =>
        /\ index_writes = 1
        /\ \A i \in 1..Len(units) : units[i].st = "returned"
        /\ Len(stored) = external + Len(call.input)
        /\ \A i \in 1..external : stored[i] = ExternalRow
        /\ \A i \in 1..Len(call.input) :
            /\ DOMAIN stored[external + i] = INDEX_COLUMNS
            /\ \A c \in DOMAIN call.input[i] \cap INDEX_COLUMNS :
                stored[external + i][c] = call.input[i][c]


---------------------------------------------------------------------------
(* merge_sets: the inputs of merge_annotations *)

\* lines 524-543: the records of the two sets without error, their intersection,
\* the interval of a record (its position among the records of its set), and one
\* input per recording of the left records
MergeInputs(annots, left_set, right_set) ==
    LET selected == SelectSeq(annots, LAMBDA r : r.set \in {left_set, right_set} /\ r.error = NoText)
        aligned == intersection(selected, <<left_set, right_set>>)
        side(st) ==
            LET rows == SelectSeq(aligned, LAMBDA r : r.set = st)
            IN  [i \in 1..Len(rows) |-> Assign(rows[i], "interval", i - 1)]
        left_annotations == side(left_set)
        right_annotations == side(right_set)
        recordings == Unique([i \in 1..Len(left_annotations) |-> left_annotations[i].recording_filename])
    IN  [k \in 1..Len(recordings) |->
            [left_annotations |->
                SelectSeq(left_annotations, LAMBDA r : r.recording_filename = recordings[k]),
             right_annotations |->
                SelectSeq(right_annotations, LAMBDA r : r.recording_filename = recordings[k])]]

---------------------------------------------------------------------------
(* merge_annotations applied to the inputs merge_sets builds from an index of
   two imported sets *)

\* the most rows a converted table has
MaxSegments == 2

\* a record of the index as import_annotations leaves it
IndexRow(st, raw, time_seek, range_onset, range_offset) ==
    [c \in INDEX_COLUMNS |->
        CASE c = "set" -> st
          [] c = "recording_filename" -> [base |-> "r1", ext |-> "wav"]
          [] c = "time_seek" -> time_seek
          [] c = "range_onset" -> range_onset
          [] c = "range_offset" -> range_offset
          [] c = "raw_filename" -> raw
          [] c = "format" -> "its"
          [] c = "annotation_filename" -> <<"r1", time_seek, range_onset>>
          [] c = "imported_at" -> "now"
          [] c = "package_version" -> "version"
          [] OTHER -> NoText]

\* the records of the left set: one import of a.its, at time_seek 0 or 1
LeftRecords == { << IndexRow(<<"A">>, <<"a">>, seek, 0, 4) >> : seek \in {0, 1} }

\* the records of the right set: one import of b.its, or two imports of it with
\* ranges that overlap
RightRecords ==
    { << IndexRow(<<"B">>, <<"b">>, 0, 0, 4) >>,
      << IndexRow(<<"B">>, <<"b">>, 0, 1, 4) >>,
      << IndexRow(<<"B">>, <<"b">>, 0, 0, 3), IndexRow(<<"B">>, <<"b">>, 0, 1, 4) >> }

\* the rows a converter may give for a.its and for b.its
LeftRows ==
    << [segment_onset |-> 0, segment_offset |-> 2, speaker_type |-> "CHI"],
       [segment_onset |-> 0, segment_offset |-> 2, speaker_type |-> "FEM"],
       [segment_onset |-> 1, segment_offset |-> 3, speaker_type |-> "CHI"],
       [segment_onset |-> 1, segment_offset |-> 3, speaker_type |-> "FEM"],
       [segment_onset |-> 2, segment_offset |-> 4, speaker_type |-> "CHI"],
       [segment_onset |-> 2, segment_offset |-> 4, speaker_type |-> "FEM"] >>

RightRows ==
    << [segment_onset |-> 0, segment_offset |-> 2, ling_type |-> "1"],
       [segment_onset |-> 0, segment_offset |-> 2, ling_type |-> "2"],
       [segment_onset |-> 1, segment_offset |-> 3, ling_type |-> "1"],
       [segment_onset |-> 1, segment_offset |-> 3, ling_type |-> "2"],
       [segment_onset |-> 2, segment_offset |-> 4, ling_type |-> "1"],
       [segment_onset |-> 2, segment_offset |-> 4, ling_type |-> "2"] >>

\* the tables of at most MaxSegments distinct rows of rows
Tables(rows) ==
    { [i \in 1..Len(ix) |-> rows[ix[i]]] :
        ix \in { s \in SeqsUpTo(1..Len(rows), MaxSegments) :
                    \A i \in 1..(Len(s) - 1) : s[i] < s[i + 1] } }

\* the converted files after the records are imported from the table df
RECURSIVE ImportedFiles(_, _, _)
ImportedFiles(fs, records, df) ==
    IF records = <<>> THEN fs
    ELSE ImportedFiles(WriteFile(fs, [path |-> OutputPath(Head(records)),
                                      segments |-> ConvertedSegments(df, Head(records))]),
                       Tail(records), df)

MergeArgs(input) ==
    [fn |-> "merge_annotations", left_columns |-> <<"speaker_type">>,
     right_columns |-> <<"ling_type">>, columns |-> <<>>, output_set |-> <<"M">>,
     input |-> input]

MergeInit ==
    \E left \in LeftRecords, right \in RightRecords,
       left_df \in Tables(LeftRows), right_df \in Tables(RightRows) :
        LET index == left \o right
            inputs == MergeInputs(index, <<"A">>, <<"B">>)
        IN  /\ stored = index
            /\ annotations = index
            /\ files = ImportedFiles(ImportedFiles(<<>>, left, left_df), right, right_df)
            /\ dirs = InitialDirs \cup {ConvertedDir(<<"A">>), ConvertedDir(<<"B">>)}
            /\ call = NoCall
            /\ units = <<>>
            /\ index_writes = 1
            /\ external = 0
            /\ \E k \in 1..Len(inputs) : args = MergeArgs(inputs[k])
            /\ result = NoResult

\* merge_annotations returned r: the files it wrote
MergeReturned(r) ==
    /\ result' = [done |-> TRUE, raises |-> r.raises, annotations |-> r.annotations,
                  writes |-> r.writes]
    /\ files' = WriteFiles(files, r.writes)
    /\ dirs' = MakeDirs(dirs, r.writes)

\* merge_annotations runs on the input: the output files are written in the order
\* of the output records
MergeAnnotations ==
    /\ args.fn = "merge_annotations"
    /\ ~result.done
    /\ MergeReturned(merge_annotations(args.left_columns, args.right_columns, args.columns,
                                       args.output_set, args.input, files))
    /\ UNCHANGED <<stored, annotations, call, units, index_writes, external, args>>

MergeNext == MergeAnnotations

SpecMerge == MergeInit /\ [][MergeNext]_vars

---------------------------------------------------------------------------
(* Properties of merge_annotations, under specification SpecMerge *)

\* the segments of the left and of the right records that merge_annotations joins,
\* on the timeline of the recording
LeftSegments == Absolute(get_segments(args.input.left_annotations, files))
RightSegments == Absolute(get_segments(args.input.right_annotations, files))

SameBoundaries(l, r) ==
    /\ l.interval = r.interval
    /\ l.segment_onset = r.segment_onset
    /\ l.segment_offset = r.segment_offset

\* the pairs of a segment of L and a segment of R of an interval with the same
\* boundaries
CoincidingPairs(L, R, interval) ==
    { p \in (1..Len(L)) \X (1..Len(R)) :
        L[p[1]].interval = interval /\ SameBoundaries(L[p[1]], R[p[2]]) }

\* the segments of L of an interval whose boundaries no segment of R has
Unpaired(L, R, interval) ==
    { a \in 1..Len(L) :
        L[a].interval = interval /\ \A b \in 1..Len(R) : ~SameBoundaries(L[a], R[b]) }

\* the rows of the file written for the k-th output record
OutputRows(k) == result.writes[k].segments

IsLeftOnly(row) == \A c \in Range(args.right_columns) : row[c] = NA
IsRightOnly(row) == \A c \in Range(args.left_columns) : row[c] = NA
IsCombined(row) == ~IsLeftOnly(row) /\ ~IsRightOnly(row)

\* row holds the left columns of l, the right columns of r and the boundaries of l
\* relative to the time_seek of the output record
CombinedFrom(row, l, r, record) ==
    /\ \A c \in Range(args.left_columns) : row[c] = l[c]
    /\ \A c \in Range(args.right_columns) : row[c] = r[c]
    /\ row.segment_onset + record.time_seek = l.segment_onset
    /\ row.segment_offset + record.time_seek = l.segment_offset

\* one output row per pair of a left and a right segment of the same interval with
\* equal absolute onset and offset, and no other combined row; the other segments
\* give one unmatched row each
PairedIffSameBoundaries(L, R) ==
    \A k \in 1..Len(result.annotations) :
        LET record == result.annotations[k]
            rows == OutputRows(k)
            pairs == CoincidingPairs(L, R, record.interval)
        IN  /\ Cardinality({j \in 1..Len(rows) : IsCombined(rows[j])}) = Cardinality(pairs)
            /\ \A p \in pairs : \E j \in 1..Len(rows) :
                    CombinedFrom(rows[j], L[p[1]], R[p[2]], record)
            /\ \A j \in 1..Len(rows) : IsCombined(rows[j]) =>
                    \E p \in pairs : CombinedFrom(rows[j], L[p[1]], R[p[2]], record)
            /\ Cardinality({j \in 1..Len(rows) : IsLeftOnly(rows[j])})
                    = Cardinality(Unpaired(L, R, record.interval))
            /\ Cardinality({j \in 1..Len(rows) : IsRightOnly(rows[j])})
                    = Cardinality(Unpaired(R, L, record.interval))

NoBoundariesCoincide(L, R) ==
    \A a \in 1..Len(L), b \in 1..Len(R) : ~SameBoundaries(L[a], R[b])

OnlyUnmatchedRows ==
    \A k \in 1..Len(result.annotations) : \A j \in 1..Len(OutputRows(k)) :
        IsLeftOnly(OutputRows(k)[j]) \/ IsRightOnly(OutputRows(k)[j])

\* how many segments of segs have the boundaries of seg
Occurrences(segs, seg) == Cardinality({i \in 1..Len(segs) : SameBoundaries(segs[i], seg)})

\* the two sides have the same boundaries, each as many times as the other
IdenticalBoundaries(L, R) ==
    /\ \A a \in 1..Len(L) : Occurrences(R, L[a]) = Occurrences(L, L[a])
    /\ \A b \in 1..Len(R) : Occurrences(L, R[b]) = Occurrences(R, R[b])

\* no two segments of one side share both boundaries
DistinctBoundaries(L, R) ==
    /\ \A a \in 1..Len(L) : Occurrences(L, L[a]) = 1
    /\ \A b \in 1..Len(R) : Occurrences(R, R[b]) = 1

\* one combined row per segment, and no unmatched row
OneRowPerSegment(L) ==
    \A k \in 1..Len(result.annotations) :
        LET interval == result.annotations[k].interval
            rows == OutputRows(k)
        IN  /\ Len(rows) = Cardinality({a \in 1..Len(L) : L[a].interval = interval})
            /\ \A j \in 1..Len(rows) : IsCombined(rows[j])

\* C10 as stated: a left and a right segment are combined into one row if and only
\* if they have the same interval and equal absolute onset and offset; when no
\* boundaries coincide every row is an unmatched row; when the two sets have
\* identical boundaries there is exactly one row per segment and no sentinel row.
C10_OneRowPerSegmentAlways ==
    (result.done /\ ~result.raises) =>
        LET L == LeftSegments
            R == RightSegments
        IN  /\ PairedIffSameBoundaries(L, R)
            /\ NoBoundariesCoincide(L, R) => OnlyUnmatchedRows
            /\ IdenticalBoundaries(L, R) => OneRowPerSegment(L)

\* C10, amended: the same, with one row per segment when the two sets have
\* identical boundaries and no two segments of one set share both boundaries.
C10_MergeBoundaryExactness ==
    (result.done /\ ~result.raises) =>
        LET L == LeftSegments
            R == RightSegments
        IN  /\ PairedIffSameBoundaries(L, R)
            /\ NoBoundariesCoincide(L, R) => OnlyUnmatchedRows
            /\ (IdenticalBoundaries(L, R) /\ DistinctBoundaries(L, R)) => OneRowPerSegment(L)

\* merge_annotations has joined two sets of two segments each with identical,
\* distinct boundaries, the left and the right record at different time_seek
C10_Witness ==
    /\ result.done
    /\ ~result.raises
    /\ LET L == LeftSegments
           R == RightSegments
       IN  IdenticalBoundaries(L, R) /\ DistinctBoundaries(L, R) /\ Len(L) = 2
    /\ \E a \in 1..Len(args.input.left_annotations), b \in 1..Len(args.input.right_annotations) :
            args.input.left_annotations[a].time_seek # args.input.right_annotations[b].time_seek

\* seg, a segment of the interval of record, has the absolute boundaries of row
SameAbsoluteBoundaries(row, seg, record) ==
    /\ seg.interval = record.interval
    /\ row.segment_onset + record.time_seek = seg.segment_onset
    /\ row.segment_offset + record.time_seek = seg.segment_offset

\* C11: every segment written into a file of the output set, matched, left-only or
\* right-only, has segment_offset > segment_onset, lies within the range_onset and
\* range_offset of the output record of the file, and has the absolute onset and
\* offset of an input segment of its interval.
C11_MergedSegmentsWellFormed ==
    (result.done /\ ~result.raises) =>
        LET L == LeftSegments
            R == RightSegments
        IN  \A k \in 1..Len(result.annotations) : \A j \in 1..Len(OutputRows(k)) :
                LET record == result.annotations[k]
                    row == OutputRows(k)[j]
                IN  /\ row.segment_offset > row.segment_onset
                    /\ record.range_onset <= row.segment_onset
                    /\ row.segment_offset <= record.range_offset
                    /\ \/ \E a \in 1..Len(L) : SameAbsoluteBoundaries(row, L[a], record)
                       \/ \E b \in 1..Len(R) : SameAbsoluteBoundaries(row, R[b], record)


\* the two records are of one recording and cover one absolute range
SameSpan(left, right) ==
    /\ left.recording_filename = right.recording_filename
    /\ abs_range_onset(left) = abs_range_onset(right)
    /\ abs_range_offset(left) = abs_range_offset(right)

\* C21: in the input merge_sets gives to merge_annotations, a left record and a
\* right record with the same interval are of the same recording and cover the
\* same absolute range.
C21_IntervalsAligned ==
    \A i \in 1..Len(args.input.left_annotations), j \in 1..Len(args.input.right_annotations) :
        LET left == args.input.left_annotations[i]
            right == args.input.right_annotations[j]
        IN  left.interval = right.interval => SameSpan(left, right)

---------------------------------------------------------------------------
(* The operations on the index, each call taken as one step *)

\* the most calls made on a project
MaxCalls == 2

\* the most records the index of a project holds before a call adds to it
MaxRows == 3

\* a project: the stored index and the directories and converted files under
\* annotations/
Project(index, fs, ds) == [stored |-> index, files |-> fs, dirs |-> ds]

\* what a call leaves: the exception it raised ("none" when it returns), the
\* project, how many units it handed to input.apply or to a pool, the converted
\* files it opened and how many times it wrote the index
Outcome(raises, project, workers, read, written) ==
    [raises |-> raises, project |-> project, workers |-> workers, read |-> read,
     written |-> written]

\* the units done so far and the unit r that just ended
WithUnit(done, r) ==
    IF r.raises THEN [done EXCEPT !.raised = TRUE]
    ELSE [raised |-> done.raised,
          imported |-> Append(done.imported, r.annotation),
          writes |-> done.writes \o r.writes]

\* input.apply(_import_annotation) on the descriptors in turn, until one raises
RECURSIVE ApplyUnits(_, _, _)
ApplyUnits(custom, input, done) ==
    IF input = <<>> \/ done.raised THEN done
    ELSE ApplyUnits(custom, Tail(input), WithUnit(done, import_annotation(custom, Head(input))))

\* lines 282-289 after the units ended: the files they wrote, and the index with
\* their records when none raised
Imported(project, input, units_done) ==
    IF units_done.raised
    THEN Outcome("KeyError",
                 Project(project.stored, WriteFiles(project.files, units_done.writes),
                         MakeDirs(project.dirs, units_done.writes)),
                 Len(input), {}, 0)
    ELSE Outcome("none",
                 Project(ConcatIndex(project.stored,
                                     DropNonIndexColumns(DataFrame(units_done.imported))),
                         WriteFiles(project.files, units_done.writes),
                         MakeDirs(project.dirs, units_done.writes)),
                 Len(input), {}, 1)

\* import_annotations(input, threads = 1, import_function) on the project
import_annotations(project, input, custom) ==
    IF missing_recordings(input) # {} THEN Outcome("ValueError", project, 0, {}, 0)
    ELSE Imported(project, input,
                  ApplyUnits(custom, input,
                             [raised |-> FALSE, imported |-> <<>>, writes |-> <<>>]))

\* merge_sets without the assertion that the column lists are disjoint
merge_sets_asserts_sets_only(left_set, right_set, left_columns, right_columns) ==
    /\ left_set # right_set
    /\ (Range(left_columns) \cup Range(right_columns))
            \subseteq (SEGMENTS_COLUMNS \ {"raw_filename", "segment_onset", "segment_offset"})

\* lines 515-522: the assertions of merge_sets
merge_sets_asserts(left_set, right_set, left_columns, right_columns) ==
    LET union == Range(left_columns) \cup Range(right_columns)
        all_columns == SEGMENTS_COLUMNS \ {"raw_filename", "segment_onset", "segment_offset"}
        required_columns ==
            REQUIRED_SEGMENTS_COLUMNS \ {"raw_filename", "segment_onset", "segment_offset"}
    IN  /\ left_set # right_set
        /\ Range(left_columns) \cap Range(right_columns) = {}
        /\ union \subseteq all_columns
        /\ required_columns \subseteq union

\* the inputs merged so far and what merge_annotations gave for one more
WithMerged(done, r) ==
    [raised |-> done.raised \/ r.raises,
     annotations |-> done.annotations \o r.annotations,
     files |-> WriteFiles(done.files, r.writes),
     dirs |-> MakeDirs(done.dirs, r.writes)]

\* pool.map(merge_annotations) on the inputs, one after the other
RECURSIVE MapMerge(_, _, _, _, _, _)
MapMerge(left_columns, right_columns, columns, output_set, inputs, done) ==
    IF inputs = <<>> THEN done
    ELSE MapMerge(left_columns, right_columns, columns, output_set, Tail(inputs),
                  WithMerged(done, merge_annotations(left_columns, right_columns, columns,
                                                     output_set, Head(inputs), done.files)))

\* lines 548-549: the index columns of the output records, raw_filename 'NA' when
\* it is missing
FillRawFilename(frame) ==
    [i \in 1..Len(frame) |->
        IF "raw_filename" \in DOMAIN frame[i] /\ frame[i].raw_filename = NoFilename
        THEN [frame[i] EXCEPT !.raw_filename = <<NA>>]
        ELSE frame[i]]

MergedRecords(records) == FillRawFilename(DropNonIndexColumns(DataFrame(records)))

\* the converted files the records refer to
ConvertedPaths(records) ==
    { <<records[i].set, records[i].annotation_filename>> : i \in 1..Len(records) }

\* the converted files merge_annotations opens for the inputs
ReadPaths(inputs) ==
    UNION { ConvertedPaths(inputs[k].left_annotations)
                \cup ConvertedPaths(inputs[k].right_annotations) : k \in 1..Len(inputs) }

\* lines 547-553 after pool.map returned or raised
Merged(project, inputs, merged) ==
    IF merged.raised
    THEN Outcome("Exception", Project(project.stored, merged.files, merged.dirs),
                 Len(inputs), {}, 0)
    ELSE Outcome("none",
                 Project(ConcatIndex(project.stored, MergedRecords(merged.annotations)),
                         merged.files, merged.dirs),
                 Len(inputs), ReadPaths(inputs), 1)

\* lines 531-546: an empty intersection has no column 'set'; otherwise the inputs
\* go to the pool
MergeAll(project, left_columns, right_columns, output_set, inputs) ==
    IF inputs = <<>> THEN Outcome("KeyError", project, 0, {}, 0)
    ELSE Merged(project, inputs,
                MapMerge(left_columns, right_columns, <<>>, output_set, inputs,
                         [raised |-> FALSE, annotations |-> <<>>,
                          files |-> project.files, dirs |-> project.dirs]))

\* merge_sets(left_set, right_set, left_columns, right_columns, output_set) on the
\* project; in_memory is self.annotations as the last call left it
merge_sets(project, in_memory, left_set, right_set, left_columns, right_columns, output_set) ==
    IF ~merge_sets_asserts(left_set, right_set, left_columns, right_columns)
    THEN Outcome("AssertionError", project, 0, {}, 0)
    ELSE MergeAll(project, left_columns, right_columns, output_set,
                  MergeInputs(in_memory, left_set, right_set))

\* the directories of annotations/<annotation_set> that are not raw or converted
ChildSets(ds, annotation_set) ==
    { d \in ds : /\ Len(d) = Len(annotation_set) + 1
                 /\ IsPrefix(annotation_set, d)
                 /\ d[Len(d)] \notin {"raw", "converted"} }

\* list(set(os.listdir(path)) - {'raw', 'converted'}): the entries in some order,
\* each once; nothing below depends on which order
Listed(entries) ==
    CHOOSE candidates \in [1..Cardinality(entries) -> entries] :
        \A i, j \in 1..Cardinality(entries) : candidates[i] = candidates[j] => i = j

\* get_subsets(annotation_set, recursive): each subset is followed by its own
\* subsets; the recursive call is made without recursive, so it stops there
get_subsets(ds, annotation_set, recursive) ==
    LET candidates == Listed(ChildSets(ds, annotation_set))
    IN  Flatten([k \in 1..Len(candidates) |->
                    <<candidates[k]>>
                        \o IF recursive THEN Listed(ChildSets(ds, candidates[k])) ELSE <<>>])

\* rmtree of the directory of the set, its raw annotations included
rmtree_whole_set(project, annotation_set) ==
    Project(project.stored,
            [k \in {q \in DOMAIN project.files : q[1] # annotation_set} |-> project.files[k]],
            {d \in project.dirs : ~IsPrefix(annotation_set, d)})

\* rmtree(path): the directories and the converted files left
rmtree(project, annotation_set) ==
    Project(project.stored,
            [k \in {q \in DOMAIN project.files : q[1] # annotation_set} |-> project.files[k]],
            {d \in project.dirs : ~IsPrefix(ConvertedDir(annotation_set), d)})

\* remove_set(annotation_set, recursive) on the project; RemoveSubsets is the loop
\* of lines 334-335 on the subsets in rest
RECURSIVE remove_set(_, _, _)
RECURSIVE RemoveSubsets(_, _, _)
RemoveSubsets(done, rest, recursive) ==
    IF rest = {} \/ done.raises # "none" THEN done
    ELSE LET subset == CHOOSE x \in rest : TRUE
             r == remove_set(done.project, subset, recursive)
         IN  RemoveSubsets([r EXCEPT !.written = @ + done.written], rest \ {subset},
                           recursive)

remove_set(project, annotation_set, recursive) ==
    IF recursive /\ annotation_set \notin project.dirs
    THEN Outcome("FileNotFoundError", project, 0, {}, 0)
    ELSE
    LET subsets == IF recursive THEN Range(get_subsets(project.dirs, annotation_set, FALSE)) ELSE {}
        below == RemoveSubsets(Outcome("none", project, 0, {}, 0), subsets, recursive)
        cleared == rmtree(below.project, annotation_set)
    IN  IF below.raises # "none" THEN below
        ELSE Outcome("none",
                     Project(SelectSeq(cleared.stored, LAMBDA r : r.set # annotation_set),
                             cleared.files, cleared.dirs),
                     0, {}, below.written + 1)

\* move(current/name, new/name): the directories after the move
MovedDirs(ds, current, new, name) ==
    { IF IsPrefix(current \o <<name>>, d)
      THEN new \o SubSeq(d, Len(current) + 1, Len(d))
      ELSE d : d \in ds }

\* the converted files after annotations/<current>/converted is moved
MovedFiles(fs, current, new) ==
    LET moved(q) == IF q[1] = current THEN <<new, q[2]>> ELSE q
    IN  [k \in {moved(q) : q \in DOMAIN fs} |->
            fs[CHOOSE q \in DOMAIN fs : moved(q) = k]]

\* a rename that does not test the two paths before it moves the directories
rename_set_untested(project, annotation_set, new_set, recursive, ignore_errors) ==
    Outcome("none",
            Project([i \in 1..Len(project.stored) |->
                        IF project.stored[i].set = annotation_set
                        THEN [project.stored[i] EXCEPT !.set = new_set]
                        ELSE project.stored[i]],
                    MovedFiles(project.files, annotation_set, new_set),
                    MovedDirs(MovedDirs(makedirs(project.dirs, new_set),
                                        annotation_set, new_set, "raw"),
                              annotation_set, new_set, "converted")),
            0, {}, 1)

\* rename_set(annotation_set, new_set, recursive, ignore_errors) on the project.
\* With subsets and recursive, line 385 uses the module re, which is not imported.
rename_set(project, annotation_set, new_set, recursive, ignore_errors) ==
    LET indexed == SelectSeq(project.stored, LAMBDA r : r.set = annotation_set)
        subsets == IF recursive THEN Range(get_subsets(project.dirs, annotation_set, FALSE)) ELSE {}
        made == makedirs(project.dirs, new_set)
        ds == MovedDirs(MovedDirs(made, annotation_set, new_set, "raw"),
                        annotation_set, new_set, "converted")
        fs == IF ConvertedDir(annotation_set) \in project.dirs
              THEN MovedFiles(project.files, annotation_set, new_set)
              ELSE project.files
        index == [i \in 1..Len(project.stored) |->
                    IF project.stored[i].set = annotation_set
                    THEN [project.stored[i] EXCEPT !.set = new_set]
                    ELSE project.stored[i]]
    IN  IF annotation_set \notin project.dirs THEN Outcome("Exception", project, 0, {}, 0)
        ELSE IF new_set \in project.dirs THEN Outcome("Exception", project, 0, {}, 0)
        ELSE IF indexed = <<>> /\ ~ignore_errors /\ ~recursive
        THEN Outcome("Exception", project, 0, {}, 0)
        ELSE IF subsets # {} THEN Outcome("NameError", project, 0, {}, 0)
        ELSE Outcome("none", Project(index, fs, ds), 0, {}, 1)

---------------------------------------------------------------------------
(* A project on which import_annotations, merge_sets, rename_set, remove_set and
   get_subsets are called one after the other *)

\* the descriptors of the batches
IndexDescriptors ==
    { [set |-> <<"A">>, recording_filename |-> [base |-> "r1", ext |-> "wav"],
       time_seek |-> 0, range_onset |-> 0, range_offset |-> 4,
       raw_filename |-> <<"ok">>, format |-> "its"],
      [set |-> <<"A">>, recording_filename |-> [base |-> "r1", ext |-> "wav"],
       time_seek |-> 0, range_onset |-> 0, range_offset |-> 3,
       raw_filename |-> <<"ok">>, format |-> "its"],
      [set |-> <<"A">>, recording_filename |-> [base |-> "r1", ext |-> "wav"],
       time_seek |-> 0, range_onset |-> 0, range_offset |-> 2,
       raw_filename |-> <<"ok">>, format |-> "its"],
      [set |-> <<"A">>, recording_filename |-> [base |-> "r1", ext |-> "wav"],
       time_seek |-> 0, range_onset |-> 2, range_offset |-> 4,
       raw_filename |-> <<"unreadable">>, format |-> "its"] }

\* the batches: one descriptor, or two descriptors that differ in range_offset
IndexBatches ==
    { <<d>> : d \in IndexDescriptors }
        \cup { <<d, e>> : d, e \in {x \in IndexDescriptors : x.raw_filename = <<"ok">>} }

\* the sets and the column lists merge_sets is called with
MergedSets == { <<<<"A">>, <<"B">>>>, <<<<"A">>, <<"A">>>> }

MergedColumns ==
    { << <<"speaker_type">>, <<"ling_type">> >>,
      << <<"speaker_type">>, <<"speaker_type">> >>,
      << <<"speaker_type">>, <<"raw_filename">> >> }

\* the sets rename_set, remove_set and get_subsets are called with
RenamedSets == { <<<<"A">>, <<"C">>>>, <<<<"M">>, <<"B">>>>, <<<<"M">>, <<"C">>>> }
RemovedSets == { <<"A">>, <<"A", "sub">>, <<"M">> }

\* the records of a project in which a.its and b.its were imported into A and B
ImportedRecords ==
    << IndexRow(<<"A">>, <<"a">>, 0, 0, 4), IndexRow(<<"B">>, <<"b">>, 1, 0, 4) >>

\* the records of a project in which A has the subset A/sub, which has the subset
\* A/sub/deep, each with one imported file; A/other and A/sub/deep/more are
\* subsets into which nothing was imported
NestedRecords ==
    << IndexRow(<<"A">>, <<"a">>, 0, 0, 4), IndexRow(<<"A", "sub">>, <<"s">>, 0, 0, 4),
       IndexRow(<<"A", "sub", "deep">>, <<"d">>, 0, 0, 4), IndexRow(<<"B">>, <<"b">>, 1, 0, 4) >>

IndexInit ==
    /\ \/ \E imported \in BOOLEAN, subset \in BOOLEAN :
            LET index == IF imported THEN ImportedRecords ELSE <<>>
                fs == IF imported
                      THEN ImportedFiles(ImportedFiles(<<>>, <<ImportedRecords[1]>>,
                                                       <<LeftRows[1], LeftRows[2], LeftRows[3]>>),
                                         <<ImportedRecords[2]>>, <<RightRows[1], RightRows[5]>>)
                      ELSE <<>>
            IN  /\ stored = index
                /\ annotations = index
                /\ files = fs
                /\ dirs = InitialDirs
                            \cup (IF imported THEN {ConvertedDir(<<"A">>), ConvertedDir(<<"B">>)} ELSE {})
                            \cup (IF subset THEN {<<"A", "sub">>} ELSE {})
       \/ /\ stored = NestedRecords
          /\ annotations = NestedRecords
          /\ files = ImportedFiles(<<>>, NestedRecords, <<LeftRows[1], LeftRows[5]>>)
          /\ dirs = UNION { {NestedRecords[i].set, RawDir(NestedRecords[i].set),
                             ConvertedDir(NestedRecords[i].set)} : i \in 1..Len(NestedRecords) }
                        \cup {<<"A", "other">>, <<"A", "sub", "deep", "more">>}
    /\ call = NoCall
    /\ units = <<>>
    /\ index_writes = 0
    /\ external = 0
    /\ args = NoArgs
    /\ result = [done |-> FALSE, calls |-> 0]

\* the call returned or raised: what it leaves in the project and in the manager.
\* self.annotations is the index the call wrote or, when it raised after read(), the
\* index it read
Returned(outcome, has_read) ==
    /\ stored' = outcome.project.stored
    /\ files' = outcome.project.files
    /\ dirs' = outcome.project.dirs
    /\ annotations' = IF has_read \/ outcome.raises = "none" THEN outcome.project.stored
                      ELSE annotations
    /\ index_writes' = index_writes + outcome.written
    /\ result' = [done |-> TRUE, calls |-> result.calls + 1, raises |-> outcome.raises,
                  workers |-> outcome.workers, read |-> outcome.read]
    /\ UNCHANGED <<call, units, external>>

\* import_annotations(input, threads = 1)
CallImportAnnotations(input) ==
    /\ result.calls < MaxCalls
    /\ Len(stored) + Len(input) <= MaxRows
    /\ args' = [fn |-> "import_annotations", input |-> input, threads |-> 1]
    /\ Returned(import_annotations(Project(stored, files, dirs), input, FALSE), FALSE)

\* merge_sets(left_set, right_set, left_columns, right_columns, output_set = 'M')
CallMergeSets(left_set, right_set, left_columns, right_columns) ==
    /\ result.calls < MaxCalls
    /\ Len(stored) <= MaxRows
    /\ args' = [fn |-> "merge_sets", left_set |-> left_set, right_set |-> right_set,
                left_columns |-> left_columns, right_columns |-> right_columns,
                output_set |-> <<"M">>]
    /\ Returned(merge_sets(Project(stored, files, dirs), annotations, left_set, right_set,
                           left_columns, right_columns, <<"M">>), FALSE)

\* rename_set(annotation_set, new_set, recursive, ignore_errors): the index is read
\* first, whatever follows
CallRenameSet(annotation_set, new_set, recursive, ignore_errors) ==
    /\ result.calls < MaxCalls
    /\ args' = [fn |-> "rename_set", annotation_set |-> annotation_set, new_set |-> new_set,
                recursive |-> recursive, ignore_errors |-> ignore_errors]
    /\ Returned(rename_set(Project(stored, files, dirs), annotation_set, new_set,
                           recursive, ignore_errors), TRUE)

\* remove_set(annotation_set, recursive): the index is read first
CallRemoveSet(annotation_set, recursive) ==
    /\ result.calls < MaxCalls
    /\ args' = [fn |-> "remove_set", annotation_set |-> annotation_set,
                recursive |-> recursive]
    /\ Returned(remove_set(Project(stored, files, dirs), annotation_set, recursive), TRUE)

\* get_subsets(annotation_set, recursive): os.listdir raises when the set has no
\* directory
CallGetSubsets(annotation_set, recursive) ==
    /\ result.calls < MaxCalls
    /\ args' = [fn |-> "get_subsets", annotation_set |-> annotation_set,
                recursive |-> recursive]
    /\ result' = [done |-> TRUE, calls |-> result.calls + 1,
                  raises |-> IF annotation_set \in dirs THEN "none" ELSE "FileNotFoundError",
                  workers |-> 0, read |-> {},
                  subsets |-> IF annotation_set \in dirs
                              THEN get_subsets(dirs, annotation_set, recursive) ELSE <<>>]
    /\ UNCHANGED <<stored, annotations, files, dirs, index_writes, call, units, external>>

IndexNext ==
    \/ \E input \in IndexBatches : CallImportAnnotations(input)
    \/ \E st \in MergedSets, cs \in MergedColumns : CallMergeSets(st[1], st[2], cs[1], cs[2])
    \/ \E st \in RenamedSets, recursive \in BOOLEAN, ignore_errors \in BOOLEAN :
            CallRenameSet(st[1], st[2], recursive, ignore_errors)
    \/ \E annotation_set \in RemovedSets, recursive \in BOOLEAN :
            CallRemoveSet(annotation_set, recursive)
    \/ \E annotation_set \in RemovedSets, recursive \in BOOLEAN :
            CallGetSubsets(annotation_set, recursive)

SpecIndex == IndexInit /\ [][IndexNext]_vars

---------------------------------------------------------------------------
(* Properties of the index, under specification SpecIndex *)

\* C3: no two rows of the stored index with a non-empty annotation_filename have
\* the same set and the same annotation_filename.
C3_IndexUniqueness ==
    \A i, j \in 1..Len(stored) :
        (i # j /\ stored[i].annotation_filename # NoFilename) =>
            <<stored[i].set, stored[i].annotation_filename>>
                # <<stored[j].set, stored[j].annotation_filename>>

\* C17: for every descriptor of a batch that import_annotations imported without
\* error, get_segments on its record returns the segments the import of the
\* descriptor wrote, which are the rows of the converted file (clipping them again
\* changes nothing), in ascending order of onset, offset and speaker_type.
C17_RoundTrip ==
    (result.done /\ args.fn = "import_annotations" /\ result.raises = "none") =>
        \A i \in 1..Len(args.input) :
            LET record == stored[Len(stored) - Len(args.input) + i]
                returned == get_segments(<<record>>, files)
                segments == [k \in 1..Len(returned) |->
                                DropColumns(returned[k], DOMAIN record \ {"raw_filename"})]
            IN  record.annotation_filename # NoFilename =>
                    /\ segments = import_annotation(FALSE, args.input[i]).writes[1].segments
                    /\ segments = files[<<record.set, record.annotation_filename>>]
                    /\ \A k \in 1..(Len(segments) - 1) :
                            ~SortsBefore(segments[k + 1], segments[k])

\* what merge_sets must refuse: equal sets, a shared column, or a column that is
\* not a segment attribute
RefusedMerge(a) ==
    \/ a.left_set = a.right_set
    \/ \E c \in Range(a.left_columns) : c \in Range(a.right_columns)
    \/ \E c \in Range(a.left_columns) \cup Range(a.right_columns) :
            c \notin SEGMENTS_COLUMNS \/ c \in {"raw_filename", "segment_onset", "segment_offset"}

\* C9: a call of merge_sets with equal sets, a shared column or a column that is
\* not an allowed segment attribute fails before any worker is dispatched, reads
\* and writes no converted file and leaves the stored index unchanged.
C9_MergePreconditions ==
    [][ (result'.calls # result.calls /\ args'.fn = "merge_sets" /\ RefusedMerge(args')) =>
            <<result'.raises, result'.workers, result'.read,
              stored', annotations', files', dirs', index_writes'>>
                = <<"AssertionError", 0, {}, stored, annotations, files, dirs, index_writes>>
      ]_vars

\* merge_sets has refused a call on a project in which a merge of A and B succeeds
C9_Witness ==
    /\ result.done
    /\ args.fn = "merge_sets"
    /\ RefusedMerge(args)
    /\ result.raises = "AssertionError"
    /\ merge_sets(Project(stored, files, dirs), annotations, <<"A">>, <<"B">>,
                  <<"speaker_type">>, <<"ling_type">>, <<"M">>).raises = "none"

\* the current directory of the renamed set is missing, or the new one exists
MissingOrTaken(a, ds) == a.annotation_set \notin ds \/ a.new_set \in ds

\* the index with the rows of the renamed set under its new name
RenamedRows(index, a) ==
    [i \in 1..Len(index) |->
        IF index[i].set = a.annotation_set
        THEN [index[i] EXCEPT !.set = a.new_set]
        ELSE index[i]]

\* C19: rename_set raises an exception, moves no directory and no file and leaves
\* the stored index as it was when the directory of the current set is missing
\* or the directory of the new set exists; a non-recursive rename_set that
\* succeeds leaves an index of as many rows, in which the rows of the current set
\* have the new set and differ in nothing else, and every other row is unchanged.
C19_RenameSet ==
    [][ (result'.calls # result.calls /\ args'.fn = "rename_set") =>
            IF MissingOrTaken(args', dirs)
            THEN <<result'.raises, stored', dirs', files', index_writes'>>
                    = <<"Exception", stored, dirs, files, index_writes>>
            ELSE (result'.raises = "none" /\ ~args'.recursive) =>
                    stored' = RenamedRows(stored, args')
      ]_vars

\* a non-recursive rename_set has succeeded on an index with rows of the renamed
\* set and rows of another set
C19_Witness ==
    /\ result.done
    /\ args.fn = "rename_set"
    /\ ~args.recursive
    /\ result.raises = "none"
    /\ ConvertedDir(args.new_set) \in dirs
    /\ ConvertedDir(args.annotation_set) \notin dirs
    /\ \E i, j \in 1..Len(stored) :
            /\ stored[i].set = args.new_set
            /\ stored[j].set \notin {args.new_set, args.annotation_set}

\* the sets a call of remove_set is to remove: the set and, with recursive, the
\* directories below it at any depth that are no raw or converted directories
RemovedBy(a, ds) ==
    {a.annotation_set}
        \cup IF a.recursive
             THEN { d \in ds : /\ IsPrefix(a.annotation_set, d)
                               /\ \A i \in (Len(a.annotation_set) + 1)..Len(d) :
                                        d[i] \notin {"raw", "converted"} }
             ELSE {}

\* what is left of the index, the directories and the converted files when the
\* rows and the converted directories of the sets in gone are taken away
WithoutSets(index, ds, fs, gone) ==
    << SelectSeq(index, LAMBDA row : row.set \notin gone),
       { d \in ds : \A st \in gone : ~IsPrefix(ConvertedDir(st), d) },
       [k \in { q \in DOMAIN fs : q[1] \notin gone } |-> fs[k]] >>

\* C20: when remove_set returns, the stored index has lost the rows of the set and
\* the project its converted directory, and with recursive those of the subsets
\* of the set at any depth; the raw annotations, the other directories and the
\* rows and converted files of every other set (the subsets, without recursive)
\* are as they were.
C20_RemoveSet ==
    [][ (result'.calls # result.calls /\ args'.fn = "remove_set" /\ result'.raises = "none") =>
            <<stored', dirs', files'>> = WithoutSets(stored, dirs, files, RemovedBy(args', dirs))
      ]_vars

\* a recursive remove_set has returned on a project in which the set had a subset
\* with a subset of its own: their converted directories are gone, their raw
\* annotations and the rows of another set are left
C20_Witness ==
    /\ result.done
    /\ args.fn = "remove_set"
    /\ args.recursive
    /\ result.raises = "none"
    /\ \E sub, deep \in dirs :
            /\ sub \in ChildSets(dirs, args.annotation_set)
            /\ deep \in ChildSets(dirs, sub)
            /\ {RawDir(args.annotation_set), RawDir(sub), RawDir(deep)} \subseteq dirs
            /\ \A st \in {args.annotation_set, sub, deep} :
                    /\ ConvertedDir(st) \notin dirs
                    /\ \A i \in 1..Len(stored) : stored[i].set # st
    /\ stored # <<>>

\* the directories below annotations/<annotation_set>, at any depth, no part of
\* whose path below the set is raw or converted
Descendants(ds, annotation_set) ==
    { d \in ds : /\ IsPrefix(annotation_set, d)
                 /\ Len(d) > Len(annotation_set)
                 /\ \A i \in (Len(annotation_set) + 1)..Len(d) :
                        d[i] \notin {"raw", "converted"} }

\* C23: get_subsets with recursive returns the subsets of the set at every depth,
\* each once, and without recursive its direct subsets, each once.
C23_GetSubsets ==
    (result.done /\ args.fn = "get_subsets" /\ result.raises = "none") =>
        /\ Range(result.subsets) = IF args.recursive
                                   THEN Descendants(dirs, args.annotation_set)
                                   ELSE ChildSets(dirs, args.annotation_set)
        /\ \A i, j \in 1..Len(result.subsets) :
                result.subsets[i] = result.subsets[j] => i = j

---------------------------------------------------------------------------
(* Properties of the records merge_sets appends, under specification SpecMerge *)

\* the left and the right set both have a segment in the interval of the record
Contributes(record) ==
    /\ \E a \in 1..Len(LeftSegments) : LeftSegments[a].interval = record.interval
    /\ \E b \in 1..Len(RightSegments) : RightSegments[b].interval = record.interval

\* C22: the records merge_sets appends for an input are one per left record of
\* the intersection, in the output set, named after the recording, the time_seek
\* and the range_onset of the left record, with the raw filenames of the left and
\* of the right record of the interval joined by a comma when both have segments
\* in it, whether or not boundaries coincide; one converted file is written per
\* record.
C22_MergedRecords ==
    (result.done /\ ~result.raises) =>
        LET left == args.input.left_annotations
            right == args.input.right_annotations
            appended == MergedRecords(result.annotations)
        IN  /\ Len(appended) = Len(left)
            /\ Len(result.writes) = Len(left)
            /\ \A i \in 1..Len(left) :
                    /\ appended[i].set = args.output_set
                    /\ appended[i].annotation_filename = AnnotationFilename(left[i])
                    /\ result.writes[i].path = <<args.output_set, AnnotationFilename(left[i])>>
                    /\ \A j \in 1..Len(right) :
                            (right[j].interval = left[i].interval /\ Contributes(left[i])) =>
                                appended[i].raw_filename
                                    = CommaJoined(left[i].raw_filename, right[j].raw_filename)
            /\ \A i, j \in 1..Len(left) :
                    result.writes[i].path = result.writes[j].path => i = j

---------------------------------------------------------------------------
(* intersection applied to the records of up to three sets *)

\* the sets of the records, and the ranges a record of r1.wav may have
IntersectedSetNames == << <<"A">>, <<"B">>, <<"C">> >>
IntersectedRanges == << <<0, 2>>, <<1, 3>>, <<2, 4>> >>

\* the records intersection may be given: for each set three records of r1.wav and
\* one of r2.wav; the records of B are at time_seek 1
IntersectedRows ==
    [i \in 1..12 |->
        LET st == IntersectedSetNames[((i - 1) \div 4) + 1]
            v == (i - 1) % 4
        IN  [set |-> st,
             recording_filename |-> [base |-> IF v = 3 THEN "r2" ELSE "r1", ext |-> "wav"],
             time_seek |-> IF st = <<"B">> THEN 1 ELSE 0,
             range_onset |-> IF v = 3 THEN 0 ELSE IntersectedRanges[v + 1][1],
             range_offset |-> IF v = 3 THEN 2 ELSE IntersectedRanges[v + 1][2],
             raw_filename |-> <<"raw", i>>]]

\* the frames of at most MaxRows distinct rows of rows
Frames(rows) ==
    { [i \in 1..Len(ix) |-> rows[ix[i]]] :
        ix \in { s \in SeqsUpTo(1..Len(rows), MaxRows) :
                    s # <<>> /\ \A i \in 1..(Len(s) - 1) : s[i] < s[i + 1] } }

\* the orders in which the names of xs can be listed
Orders(xs) == { [i \in 1..Len(xs) |-> xs[f[i]]] : f \in Permutations(1..Len(xs)) }

\* the lists of two or three sets intersection is asked for
RequestedSets ==
    UNION { Orders(xs) : xs \in { <<<<"A">>, <<"B">>>>, <<<<"A">>, <<"C">>>>, <<<<"B">>, <<"C">>>>,
                                  <<<<"A">>, <<"B">>, <<"C">>>> } }

IntersectInit ==
    \E annots \in Frames(IntersectedRows), sets \in RequestedSets :
        /\ stored = <<>>
        /\ annotations = <<>>
        /\ files = <<>>
        /\ dirs = {}
        /\ call = NoCall
        /\ units = <<>>
        /\ index_writes = 0
        /\ external = 0
        /\ args = [fn |-> "intersection", annotations |-> annots, sets |-> sets]
        /\ result = NoResult

\* AnnotationManager.intersection(annotations, sets) returns
Intersection ==
    /\ args.fn = "intersection"
    /\ ~result.done
    /\ result' = [done |-> TRUE, records |-> intersection(args.annotations, args.sets)]
    /\ UNCHANGED <<stored, annotations, files, dirs, call, units, index_writes, external, args>>

IntersectNext == Intersection

SpecIntersect == IntersectInit /\ [][IntersectNext]_vars

---------------------------------------------------------------------------
(* Properties of intersection, under specification SpecIntersect *)

\* the absolute range of record a lies in the absolute range of record b
CoveredBy(a, b) ==
    /\ a.recording_filename = b.recording_filename
    /\ abs_range_onset(b) <= abs_range_onset(a)
    /\ abs_range_offset(a) <= abs_range_offset(b)

\* out is the record inp with another range_onset and range_offset
DerivedFrom(out, inp) ==
    /\ DOMAIN out = DOMAIN inp
    /\ \A c \in DOMAIN inp \ {"range_onset", "range_offset"} : out[c] = inp[c]

\* the records of the set st given to intersection on the recording rec
RecordsOf(st, rec) ==
    { i \in 1..Len(args.annotations) :
        args.annotations[i].set = st /\ args.annotations[i].recording_filename = rec }

GivenRecordings == { args.annotations[i].recording_filename : i \in 1..Len(args.annotations) }

ReturnedOn(rec) == { k \in 1..Len(result.records) : result.records[k].recording_filename = rec }

\* C12: every record intersection returns has range_offset > range_onset, is an
\* input record of a requested set with only range_onset and range_offset changed,
\* has an absolute range inside the absolute range of that input record, and that
\* range is covered on the same recording by an input record of every requested
\* set; a recording on which a requested set has no record gives no record.
C12_IntersectionRecords ==
    result.done =>
        /\ \A k \in 1..Len(result.records) :
            LET out == result.records[k]
            IN  /\ out.range_offset > out.range_onset
                /\ \E i \in 1..Len(args.annotations) :
                        /\ args.annotations[i].set \in Range(args.sets)
                        /\ DerivedFrom(out, args.annotations[i])
                        /\ CoveredBy(out, args.annotations[i])
                /\ \A st \in Range(args.sets) :
                        \E j \in RecordsOf(st, out.recording_filename) :
                            CoveredBy(out, args.annotations[j])
        /\ \A rec \in GivenRecordings :
                (\E st \in Range(args.sets) : RecordsOf(st, rec) = {}) => ReturnedOn(rec) = {}

\* intersection has returned a record of B (at time_seek 1) with a range smaller
\* than the range of the input record, and nothing for a recording that one of the
\* requested sets does not cover
C12_Witness ==
    /\ result.done
    /\ \E k \in 1..Len(result.records) :
            /\ result.records[k].set = <<"B">>
            /\ \E i \in 1..Len(args.annotations) :
                    /\ DerivedFrom(result.records[k], args.annotations[i])
                    /\ result.records[k].range_onset > args.annotations[i].range_onset
    /\ \E rec \in GivenRecordings :
            /\ \E st \in Range(args.sets) : RecordsOf(st, rec) # {}
            /\ \E st \in Range(args.sets) : RecordsOf(st, rec) = {}
            /\ ReturnedOn(rec) = {}

\* on the recording rec the records of two requested sets at most touch: every
\* record of one ends where or before every record of the other begins
OnlyTouch(rec) ==
    \E s1, s2 \in Range(args.sets) :
        /\ s1 # s2
        /\ \A i \in RecordsOf(s1, rec), j \in RecordsOf(s2, rec) :
                abs_range_offset(args.annotations[i]) <= abs_range_onset(args.annotations[j])

\* a span of the recording rec of length 1 is covered by a record of every
\* requested set
HasOverlap(rec) ==
    \E t \in 0..5 :
        \A st \in Range(args.sets) :
            \E i \in RecordsOf(st, rec) :
                /\ abs_range_onset(args.annotations[i]) <= t
                /\ t + 1 <= abs_range_offset(args.annotations[i])

\* C13: touching ranges are no overlap. A recording on which the records of two
\* requested sets only touch gives no record, and the result is empty when no
\* recording has an overlap.
C13_TouchingIsNoOverlap ==
    result.done =>
        /\ \A rec \in GivenRecordings : OnlyTouch(rec) => ReturnedOn(rec) = {}
        /\ (\A rec \in GivenRecordings : ~HasOverlap(rec)) => result.records = <<>>

\* intersection has returned nothing for records of A and B of one recording where
\* a record of A ends exactly where a record of B begins
C13_Witness ==
    /\ result.done
    /\ result.records = <<>>
    /\ \E rec \in GivenRecordings :
            /\ OnlyTouch(rec)
            /\ \E i \in RecordsOf(<<"A">>, rec), j \in RecordsOf(<<"B">>, rec) :
                    abs_range_offset(args.annotations[i]) = abs_range_onset(args.annotations[j])

\* C14: intersection returns the same set of records for every order of the list
\* of sets.
C14_OrderIndependence ==
    result.done =>
        \A sets \in Orders(args.sets) :
            Range(intersection(args.annotations, sets)) = Range(result.records)

\* intersection has returned records for three sets, one of them with a range that
\* is not the range of the input record
C14_Witness ==
    /\ result.done
    /\ Len(args.sets) = 3
    /\ \E k \in 1..Len(result.records), i \in 1..Len(args.annotations) :
            /\ DerivedFrom(result.records[k], args.annotations[i])
            /\ result.records[k].range_offset < args.annotations[i].range_offset

---------------------------------------------------------------------------
(* get_collapsed_segments *)

\* the order of recording_filename values
RecordingRank(rec) == CASE rec.base = "r1" -> 1 [] rec.base = "r2" -> 2 [] OTHER -> 3

RECURSIVE Sum(_)
Sum(values) == IF values = <<>> THEN 0 ELSE Head(values) + Sum(Tail(values))

\* lines 595-602: the records sorted by recording, absolute onset, absolute offset
\* and set, each with its duration and with its position, the cumulated duration
\* of its set one row earlier (0 on the first row of a set)
Positioned(annots) ==
    LET key(r) == <<RecordingRank(r.recording_filename), abs_range_onset(r),
                    abs_range_offset(r), SetRank(r.set)>>
        before(a, b) ==
            \E n \in 1..4 : a[n] < b[n] /\ \A m \in 1..(n - 1) : a[m] = b[m]
        place(i) ==
            Cardinality({j \in 1..Len(annots) :
                            \/ before(key(annots[j]), key(annots[i]))
                            \/ key(annots[j]) = key(annots[i]) /\ j < i}) + 1
        sorted == [k \in 1..Len(annots) |-> annots[CHOOSE i \in 1..Len(annots) : place(i) = k]]
        duration(r) == r.range_offset - r.range_onset
        cumsum(k) ==
            Sum([j \in 1..k |-> IF sorted[j].set = sorted[k].set THEN duration(sorted[j]) ELSE 0])
        previous(k) == {j \in 1..(k - 1) : sorted[j].set = sorted[k].set}
        position(k) ==
            IF previous(k) = {} THEN 0
            ELSE cumsum(CHOOSE j \in previous(k) : \A i \in previous(k) : i <= j)
    IN  [k \in 1..Len(annots) |->
            [c \in DOMAIN sorted[k]
                    \cup {"abs_range_onset", "abs_range_offset", "duration", "position"} |->
                CASE c = "abs_range_onset" -> abs_range_onset(sorted[k])
                  [] c = "abs_range_offset" -> abs_range_offset(sorted[k])
                  [] c = "duration" -> duration(sorted[k])
                  [] c = "position" -> position(k)
                  [] OTHER -> sorted[k][c]]]

\* the segments moved by the position of their record, range_onset left in
Collapsed_from_zero(segments) ==
    [i \in 1..Len(segments) |->
        [segments[i] EXCEPT !.segment_onset = @ + segments[i].position,
                            !.segment_offset = @ + segments[i].position]]

\* lines 606-607: the segments moved to the position of their record
Collapsed(segments) ==
    [i \in 1..Len(segments) |->
        [segments[i] EXCEPT
            !.segment_onset = @ + segments[i].position - segments[i].range_onset,
            !.segment_offset = @ + segments[i].position - segments[i].range_onset]]

\* get_collapsed_segments(annotations), reading the converted files fs
get_collapsed_segments(annots, fs) == Collapsed(get_segments(Positioned(annots), fs))

---------------------------------------------------------------------------
(* clip_segments, get_segments and get_collapsed_segments applied to tables and
   to the records of an imported project *)

\* the rows of the tables given to clip_segments: onsets and offsets from 0 to 3
ClippedRows ==
    [i \in 1..16 |->
        [segment_onset |-> (i - 1) \div 4, segment_offset |-> (i - 1) % 4,
         speaker_type |-> IF i % 2 = 0 THEN "CHI" ELSE "FEM"]]

\* the records given to get_segments: the record of a.its in A and the record of
\* b.its in B, whole or with a range that intersection has made smaller
RetrievedRows ==
    LET a == IndexRow(<<"A">>, <<"a">>, 0, 0, 4)
        b == IndexRow(<<"B">>, <<"b">>, 1, 0, 4)
    IN  << [a EXCEPT !.range_onset = 2, !.range_offset = 4],
           b,
           [a EXCEPT !.range_onset = 0, !.range_offset = 2],
           a,
           [b EXCEPT !.range_onset = 0, !.range_offset = 2],
           [a EXCEPT !.range_onset = 1, !.range_offset = 3] >>

\* the frames of at most MaxRows of these records, each at most once, in any order
RetrievedFrames ==
    { [i \in 1..Len(ix) |-> RetrievedRows[ix[i]]] :
        ix \in { s \in SeqsUpTo(1..Len(RetrievedRows), MaxRows) :
                    s # <<>> /\ \A i, j \in 1..Len(s) : i # j => s[i] # s[j] } }

\* a state in which nothing was called yet
Uncalled(index, fs, a) ==
    /\ stored = index
    /\ annotations = index
    /\ files = fs
    /\ dirs = InitialDirs \cup {ConvertedDir(<<"A">>), ConvertedDir(<<"B">>)}
    /\ call = NoCall
    /\ units = <<>>
    /\ index_writes = 0
    /\ external = 0
    /\ args = a
    /\ result = NoResult

SegmentsInit ==
    \/ \E segments \in Tables(ClippedRows), start \in 0..3, stop \in 0..3 :
            Uncalled(<<>>, <<>>, [fn |-> "clip_segments", segments |-> segments,
                                  start |-> start, stop |-> stop])
    \/ \E df \in Tables(LeftRows), annots \in RetrievedFrames,
          fn \in {"get_segments", "get_collapsed_segments"} :
            Uncalled(<<RetrievedRows[4], RetrievedRows[2]>>,
                     ImportedFiles(ImportedFiles(<<>>, <<RetrievedRows[4]>>, df),
                                   <<RetrievedRows[2]>>, <<RightRows[1], RightRows[5]>>),
                     [fn |-> fn, annotations |-> annots])

\* the call returns segments
ReturnedSegments(segments) ==
    /\ ~result.done
    /\ result' = [done |-> TRUE, segments |-> segments]
    /\ UNCHANGED <<stored, annotations, files, dirs, call, units, index_writes, external, args>>

ClipSegments ==
    /\ args.fn = "clip_segments"
    /\ ReturnedSegments(clip_segments(args.segments, args.start, args.stop))

GetSegments ==
    /\ args.fn = "get_segments"
    /\ ReturnedSegments(get_segments(args.annotations, files))

GetCollapsedSegments ==
    /\ args.fn = "get_collapsed_segments"
    /\ ReturnedSegments(get_collapsed_segments(args.annotations, files))

SegmentsNext ==
    \/ ClipSegments
    \/ GetSegments
    \/ GetCollapsedSegments

SpecSegments == SegmentsInit /\ [][SegmentsNext]_vars

---------------------------------------------------------------------------
(* Properties of clip_segments, get_segments and get_collapsed_segments, under
   specification SpecSegments *)

\* the rows of df with their boundaries brought into [lo, hi], the rows of no
\* length or less dropped
ClippedTo(df, lo, hi) ==
    SelectSeq([i \in 1..Len(df) |->
                    [df[i] EXCEPT !.segment_onset = Max(lo, Min(hi, @)),
                                  !.segment_offset = Max(lo, Min(hi, @))]],
              LAMBDA x : x.segment_offset - x.segment_onset > 0)

\* the rows returned for the record r, with the columns of the converted file
ViewOf(r) ==
    LET mine == SelectSeq(result.segments,
                          LAMBDA x : \A c \in DOMAIN r \ {"raw_filename"} : x[c] = r[c])
    IN  [i \in 1..Len(mine) |->
            [c \in DOMAIN mine[i] \ (DOMAIN r \ {"raw_filename"}) |-> mine[i][c]]]

\* C15: when several records reference the same converted file, the segments
\* get_segments returns for each record are the segments of the file clipped to the
\* range of that record, the segments of no length dropped, whatever the ranges of
\* the other records and their order.
C15_ViewPerRecord ==
    (result.done /\ args.fn = "get_segments") =>
        \A i \in 1..Len(args.annotations) :
            LET r == args.annotations[i]
            IN  ViewOf(r) = ClippedTo(files[<<r.set, r.annotation_filename>>],
                                      r.range_onset, r.range_offset)

\* C16: for bounds start <= stop, every segment clip_segments returns has
\* start <= segment_onset < segment_offset <= stop, its onset and its offset are
\* max(start, min(stop, .)) of the original ones, and the segments left out are
\* those whose clipped length is not positive.
C16_ClipCorrectness ==
    (result.done /\ args.fn = "clip_segments" /\ args.start <= args.stop) =>
        /\ \A k \in 1..Len(result.segments) :
                /\ args.start <= result.segments[k].segment_onset
                /\ result.segments[k].segment_onset < result.segments[k].segment_offset
                /\ result.segments[k].segment_offset <= args.stop
        /\ result.segments = ClippedTo(args.segments, args.start, args.stop)

\* clip_segments was given two segments: it has dropped one and cut the other
C16_Witness ==
    /\ result.done
    /\ args.fn = "clip_segments"
    /\ args.start < args.stop
    /\ Len(args.segments) = 2
    /\ Len(result.segments) = 1
    /\ \A i \in 1..2 : args.segments[i].segment_onset < args.segments[i].segment_offset
    /\ \A i \in 1..2 : result.segments[1] # args.segments[i]

\* record a comes before record b in the order of (recording_filename, absolute
\* onset, absolute offset, set)
OrderedBefore(a, b) ==
    LET ka == <<RecordingRank(a.recording_filename), abs_range_onset(a),
                abs_range_offset(a), SetRank(a.set)>>
        kb == <<RecordingRank(b.recording_filename), abs_range_onset(b),
                abs_range_offset(b), SetRank(b.set)>>
    IN  \E n \in 1..4 : ka[n] < kb[n] /\ \A m \in 1..(n - 1) : ka[m] = kb[m]

\* the sum of range_offset - range_onset over the records of the set of r that
\* come before r
DurationBefore(r) ==
    Sum([i \in 1..Len(args.annotations) |->
            IF args.annotations[i].set = r.set /\ OrderedBefore(args.annotations[i], r)
            THEN args.annotations[i].range_offset - args.annotations[i].range_onset
            ELSE 0])

\* C18: the position of a record is the sum of the durations of the records of its
\* set that come before it; every segment get_collapsed_segments returns is the
\* segment get_segments returns moved by position - range_onset; it lies in
\* [position, position + duration], and the windows of two records of one set do
\* not overlap.
C18_CollapsedPositions ==
    (result.done /\ args.fn = "get_collapsed_segments") =>
        LET original == get_segments(Positioned(args.annotations), files)
        IN  /\ Len(result.segments) = Len(original)
            /\ \A k \in 1..Len(result.segments) :
                LET row == result.segments[k]
                    duration == row.range_offset - row.range_onset
                IN  /\ row.position = DurationBefore(row)
                    /\ row.segment_onset
                            = row.position + original[k].segment_onset - row.range_onset
                    /\ row.segment_offset
                            = row.position + original[k].segment_offset - row.range_onset
                    /\ row.position <= row.segment_onset
                    /\ row.segment_offset <= row.position + duration
            /\ \A k, m \in 1..Len(result.segments) :
                LET a == result.segments[k]
                    b == result.segments[m]
                IN  (a.set = b.set /\ OrderedBefore(a, b)) =>
                        a.position + (a.range_offset - a.range_onset) <= b.position

\* get_collapsed_segments has returned segments of two records of A, the later one
\* with a range that does not begin at 0, and of a record of B
C18_Witness ==
    /\ result.done
    /\ args.fn = "get_collapsed_segments"
    /\ \E k, m, n \in 1..Len(result.segments) :
            /\ result.segments[k].set = <<"A">>
            /\ result.segments[m].set = <<"A">>
            /\ result.segments[n].set = <<"B">>
            /\ result.segments[k].position = 0
            /\ result.segments[m].position > 0
            /\ result.segments[m].range_onset > 0
            /\ result.segments[m].segment_onset # result.segments[m].position

====
